---------------------------- MODULE Spec2Model ----------------------------
(***************************************************************************)
(* Receipt line-item extraction and reconciliation pipeline.               *)
(*                                                                         *)
(* Text is modelled character by character: a string is a sequence of      *)
(* one-character strings, and every regular expression of the source is    *)
(* written as a pattern (a sequence of elements) run by one backtracking   *)
(* matcher with Python's priorities (greedy, lazy, ordered alternatives).  *)
(* Money is in integer cents.                                              *)
(***************************************************************************)
EXTENDS Integers, Sequences, FiniteSets, TLC

VARIABLES
    \* the name normalizer applied to one name
    nm_store,   \* which collator's normalize_item_name is applied
    nm_base,    \* the item name drawn as input
    nm_deco,    \* how the input is derived from nm_base (pack token appended, upper-cased)
    nm_in,      \* the name handed to the normalizer
    nm_hist,    \* results of the successive applications of normalize_item_name
    \* one receipt going through its assembler
    as_fmt,     \* "A" (Costco), "B" (Sam's Club, dedicated parser), "Blegacy" (Sam's Club, combined parser)
    as_lines,   \* lines: the text lines of the document
    as_i,       \* i: the cursor of the while loop (0-based, as in the source)
    as_items,   \* items: the records emitted so far
    as_pc,      \* "loop" while i < len(lines), then "done"
    \* a directory of receipts going through parse_receipt_directory
    ba_entry,   \* "combined" (parse_receipts.py) or "sams" (parse_sams_club_receipts.py)
    ba_docs,    \* pdf_files: each with its file-name prefix, extraction outcome and lines
    ba_k,       \* number of documents processed
    ba_all,     \* all_items
    ba_pc,      \* "loop", then "done"
    \* one intermediate CSV going through a collator
    co_store,   \* "Costco" (collate_costco_items) or "Sams" (collate_sams_club_items)
    co_recs,    \* df: the rows of the intermediate CSV
    co_scrape,  \* scrape_names
    co_pc,      \* position in the collator
    co_grouped, \* grouped: one row per item code
    co_k,       \* number of unique codes the scraping loop has gone through
    co_info,    \* scraped_info
    co_agg,     \* aggregated: one row per normalized name, before the columns are cut
    co_rows,    \* the returned rows
    co_clock,   \* time units slept so far
    co_log,     \* the external lookups made, in order: code, time, result
    \* one text line going through a line parser, or one name through a validity gate
    ln_fn,      \* the function called
    ln_line,    \* its argument
    ln_out,     \* what it returned
    ln_pc       \* "call", then "returned"

nmVars == <<nm_store, nm_base, nm_deco, nm_in, nm_hist>>
asVars == <<as_fmt, as_lines, as_i, as_items, as_pc>>
baVars == <<ba_entry, ba_docs, ba_k, ba_all, ba_pc>>
coVars == <<co_store, co_recs, co_scrape, co_pc, co_grouped, co_k, co_info, co_agg,
            co_rows, co_clock, co_log>>

lnVars == <<ln_fn, ln_line, ln_out, ln_pc>>

vars == <<nmVars, asVars, baVars, coVars, lnVars>>

\* the components that are not running in a specification stay idle
IdleNormalize ==
    nm_store = "none" /\ nm_base = <<>> /\ nm_deco = "none" /\ nm_in = <<>> /\ nm_hist = <<>>
IdleAssemble ==
    as_fmt = "none" /\ as_lines = <<>> /\ as_i = 0 /\ as_items = <<>> /\ as_pc = "idle"
IdleBatch ==
    ba_entry = "none" /\ ba_docs = <<>> /\ ba_k = 0 /\ ba_all = <<>> /\ ba_pc = "idle"
IdleCollate ==
    /\ co_store = "none" /\ co_recs = <<>> /\ co_scrape = FALSE /\ co_pc = "idle"
    /\ co_grouped = <<>> /\ co_k = 0 /\ co_info = <<>> /\ co_agg = <<>> /\ co_rows = <<>>
    /\ co_clock = 0 /\ co_log = <<>>
IdleLine ==
    ln_fn = "none" /\ ln_line = <<>> /\ ln_out = "none" /\ ln_pc = "idle"

-----------------------------------------------------------------------------
(* Characters *)

LowerSeq == <<"a","b","c","d","e","f","g","h","i","j","k","l","m","n","o","p","q","r","s","t","u","v","w","x","y","z">>
UpperSeq == <<"A","B","C","D","E","F","G","H","I","J","K","L","M","N","O","P","Q","R","S","T","U","V","W","X","Y","Z">>
DigitSeq == <<"0","1","2","3","4","5","6","7","8","9">>

LowerSet == {LowerSeq[k] : k \in 1..Len(LowerSeq)}
UpperSet == {UpperSeq[k] : k \in 1..Len(UpperSeq)}
Digit == {DigitSeq[k] : k \in 1..Len(DigitSeq)}
Space == {" ", "\t"}
WordCh == LowerSet \cup UpperSet \cup Digit \cup {"_"}

UpperMap == [c \in LowerSet |-> UpperSeq[CHOOSE k \in 1..Len(LowerSeq) : LowerSeq[k] = c]]
LowerMap == [c \in UpperSet |-> LowerSeq[CHOOSE k \in 1..Len(UpperSeq) : UpperSeq[k] = c]]
DigitMap == [c \in Digit |-> (CHOOSE k \in 1..Len(DigitSeq) : DigitSeq[k] = c) - 1]

\* str.upper() on one character
UpCh(c) == IF c \in LowerSet THEN UpperMap[c] ELSE c
LoCh(c) == IF c \in UpperSet THEN LowerMap[c] ELSE c

\* str.upper()
Upper(s) == [k \in 1..Len(s) |-> UpCh(s[k])]

\* s[a:b] with 1-based inclusive start a and exclusive end b
Slice(s, a, b) == IF b <= a THEN <<>> ELSE SubSeq(s, a, b - 1)

\* str.strip()
RECURSIVE LStrip(_)
LStrip(s) == IF s # <<>> /\ Head(s) \in Space THEN LStrip(Tail(s)) ELSE s
RECURSIVE RStrip(_)
RStrip(s) == IF s # <<>> /\ s[Len(s)] \in Space THEN RStrip(SubSeq(s, 1, Len(s) - 1)) ELSE s
Strip(s) == RStrip(LStrip(s))

\* str.startswith / str.endswith / the `in` operator on strings
StartsWith(s, pre) == Len(pre) <= Len(s) /\ SubSeq(s, 1, Len(pre)) = pre
EndsWith(s, suf) == Len(suf) <= Len(s) /\ SubSeq(s, Len(s) - Len(suf) + 1, Len(s)) = suf
Contains(s, sub) == \E p \in 1..(Len(s) - Len(sub) + 1) : SubSeq(s, p, p + Len(sub) - 1) = sub

\* int() of a run of decimal digits
RECURSIVE ParseInt(_)
ParseInt(s) == IF s = <<>> THEN 0 ELSE 10 * ParseInt(SubSeq(s, 1, Len(s) - 1)) + DigitMap[s[Len(s)]]

-----------------------------------------------------------------------------
(* Regular expressions: the subset of Python's re the source uses *)

\* a character class repeated lo..hi times (hi = -1: unbounded); neg: complemented
Cls(S, lo, hi) == [t |-> "cls", set |-> S, neg |-> FALSE, lo |-> lo, hi |-> hi, greedy |-> TRUE]
\* . repeated, lazily (.+?): any character but a newline
DotLazy(lo) == [t |-> "cls", set |-> {"\n"}, neg |-> TRUE, lo |-> lo, hi |-> -1, greedy |-> FALSE]
\* ordered alternatives of literal strings; a literal is one alternative
Alt(alts) == [t |-> "alt", alts |-> alts]
Lit(s) == Alt(<<s>>)
Bol == [t |-> "bol"]
Eol == [t |-> "eol"]
WordB == [t |-> "wb"]
Open(g) == [t |-> "open", g |-> g]
Close(g) == [t |-> "close", g |-> g]

NoCaps == <<<<0, 0>>, <<0, 0>>, <<0, 0>>, <<0, 0>>>>
RxFail == [ok |-> FALSE, start |-> 0, end |-> 0, caps |-> NoCaps]

InCls(c, e, ic) ==
    LET hit == c \in e.set \/ (ic /\ (UpCh(c) \in e.set \/ LoCh(c) \in e.set))
    IN  hit # e.neg

EqCh(a, b, ic) == IF ic THEN UpCh(a) = UpCh(b) ELSE a = b

LitAt(s, p, lit, ic) ==
    /\ p + Len(lit) - 1 <= Len(s)
    /\ \A k \in 1..Len(lit) : EqCh(s[p + k - 1], lit[k], ic)

IsWordAt(s, p) == p >= 1 /\ p <= Len(s) /\ s[p] \in WordCh

\* the longest run of class e from position p, at most e.hi characters
RECURSIVE RunLen(_, _, _, _, _)
RunLen(s, p, e, ic, n) ==
    IF (e.hi >= 0 /\ n >= e.hi) \/ p + n > Len(s) \/ ~InCls(s[p + n], e, ic)
    THEN n
    ELSE RunLen(s, p, e, ic, n + 1)

RECURSIVE RxM(_, _, _, _, _, _)
RECURSIVE RxRep(_, _, _, _, _, _, _, _)
RECURSIVE RxAlt(_, _, _, _, _, _, _)

\* match elements k.. of pattern re at position p of s: the first success in
\* backtracking order
RxM(re, k, s, p, caps, ic) ==
    IF k > Len(re) THEN [ok |-> TRUE, start |-> 0, end |-> p, caps |-> caps]
    ELSE LET e == re[k] IN
        CASE e.t = "bol" -> IF p = 1 THEN RxM(re, k + 1, s, p, caps, ic) ELSE RxFail
          [] e.t = "eol" -> IF p = Len(s) + 1 THEN RxM(re, k + 1, s, p, caps, ic) ELSE RxFail
          [] e.t = "wb" -> IF IsWordAt(s, p - 1) # IsWordAt(s, p)
                           THEN RxM(re, k + 1, s, p, caps, ic) ELSE RxFail
          [] e.t = "open" -> RxM(re, k + 1, s, p, [caps EXCEPT ![e.g] = <<p, p>>], ic)
          [] e.t = "close" -> RxM(re, k + 1, s, p, [caps EXCEPT ![e.g] = <<caps[e.g][1], p>>], ic)
          [] e.t = "alt" -> RxAlt(re, k, s, p, caps, ic, 1)
          [] e.t = "cls" ->
                LET n == RunLen(s, p, e, ic, 0) IN
                IF n < e.lo THEN RxFail
                ELSE RxRep(re, k, s, p, caps, ic, IF e.greedy THEN n ELSE e.lo, n)

\* try c repetitions of the class re[k], then the next count in priority order
RxRep(re, k, s, p, caps, ic, c, n) ==
    LET r == RxM(re, k + 1, s, p + c, caps, ic) IN
    IF r.ok THEN r
    ELSE IF re[k].greedy
         THEN IF c - 1 < re[k].lo THEN RxFail ELSE RxRep(re, k, s, p, caps, ic, c - 1, n)
         ELSE IF c + 1 > n THEN RxFail ELSE RxRep(re, k, s, p, caps, ic, c + 1, n)

\* try alternative a of re[k], then the following alternatives
RxAlt(re, k, s, p, caps, ic, a) ==
    IF a > Len(re[k].alts) THEN RxFail
    ELSE LET lit == re[k].alts[a]
             r == IF LitAt(s, p, lit, ic)
                  THEN RxM(re, k + 1, s, p + Len(lit), caps, ic) ELSE RxFail
         IN IF r.ok THEN r ELSE RxAlt(re, k, s, p, caps, ic, a + 1)

\* re.match(re, s): anchored at the start
ReMatch(re, s, ic) == [RxM(re, 1, s, 1, NoCaps, ic) EXCEPT !.start = 1]

\* re.search(re, s) from position p on: the leftmost match
RECURSIVE ReSearchFrom(_, _, _, _)
ReSearchFrom(re, s, ic, p) ==
    IF p > Len(s) + 1 THEN RxFail
    ELSE LET r == RxM(re, 1, s, p, NoCaps, ic) IN
         IF r.ok THEN [r EXCEPT !.start = p] ELSE ReSearchFrom(re, s, ic, p + 1)

ReSearch(re, s, ic) == ReSearchFrom(re, s, ic, 1)

\* the text of capture group g of match m
Group(s, m, g) == Slice(s, m.caps[g][1], m.caps[g][2])

\* re.sub(re, repl, s): every non-overlapping match, left to right
RECURSIVE ReSubFrom(_, _, _, _, _)
ReSubFrom(re, repl, s, ic, p) ==
    LET m == ReSearchFrom(re, s, ic, p) IN
    IF ~m.ok THEN Slice(s, p, Len(s) + 1)
    ELSE IF m.end > m.start
         THEN Slice(s, p, m.start) \o repl \o ReSubFrom(re, repl, s, ic, m.end)
         ELSE IF m.start > Len(s) THEN Slice(s, p, Len(s) + 1) \o repl
              ELSE Slice(s, p, m.start) \o repl \o <<s[m.start]>>
                   \o ReSubFrom(re, repl, s, ic, m.start + 1)

ReSub(re, repl, s, ic) == ReSubFrom(re, repl, s, ic, 1)

\* re.sub(r'\s+', ' ', s): every maximal run of whitespace becomes one space
RECURSIVE CollapseSpaces(_)
CollapseSpaces(s) ==
    IF s = <<>> THEN <<>>
    ELSE IF Head(s) \in Space THEN <<" ">> \o CollapseSpaces(LStrip(s))
    ELSE <<Head(s)>> \o CollapseSpaces(Tail(s))

-----------------------------------------------------------------------------
(* Name Normalizer *)

\* r'\s*\d+\s*(ct|pk|count|pieces?|pack)\b'
RxPackToken == <<Cls(Space, 0, -1), Cls(Digit, 1, -1), Cls(Space, 0, -1), Open(1),
                 Alt(<<<<"c","t">>, <<"p","k">>, <<"c","o","u","n","t">>, <<"p","i","e","c","e","s">>, <<"p","i","e","c","e">>, <<"p","a","c","k">>>>),
                 Close(1), WordB>>
\* r'\s*Qty\s+\d+\s*\$?\s*$'
RxQtySuffix == <<Cls(Space, 0, -1), Lit(<<"Q","t","y">>), Cls(Space, 1, -1), Cls(Digit, 1, -1),
                 Cls(Space, 0, -1), Cls({"$"}, 0, 1), Cls(Space, 0, -1), Eol>>
\* r'\s*Canceled\s+items?\s*\(\d+\)\s*$'
RxCanceledSuffix == <<Cls(Space, 0, -1), Lit(<<"C","a","n","c","e","l","e","d">>), Cls(Space, 1, -1), Lit(<<"i","t","e","m">>),
                      Cls({"s"}, 0, 1), Cls(Space, 0, -1), Lit(<<"(">>), Cls(Digit, 1, -1),
                      Lit(<<")">>), Cls(Space, 0, -1), Eol>>

\* collate_costco_items.normalize_item_name
NormalizeCostco(item_name) ==
    IF item_name = <<>> THEN <<>> ELSE Strip(CollapseSpaces(item_name))

\* the pack-size stripper without re.IGNORECASE on its first substitution
NormalizeSams_CaseSensitive(item_name) ==
    IF item_name = <<>> THEN <<>>
    ELSE LET a == ReSub(RxPackToken, <<>>, item_name, FALSE)
             b == Strip(CollapseSpaces(a))
             c == ReSub(RxQtySuffix, <<>>, b, TRUE)
         IN  ReSub(RxCanceledSuffix, <<>>, c, TRUE)

\* collate_sams_club_items.normalize_item_name
NormalizeSams(item_name) ==
    IF item_name = <<>> THEN <<>>
    ELSE LET a == ReSub(RxPackToken, <<>>, item_name, TRUE)
             b == Strip(CollapseSpaces(a))
             c == ReSub(RxQtySuffix, <<>>, b, TRUE)
         IN  ReSub(RxCanceledSuffix, <<>>, c, TRUE)

normalize_item_name(store, item_name) ==
    IF store = "Costco" THEN NormalizeCostco(item_name) ELSE NormalizeSams(item_name)

-----------------------------------------------------------------------------
(* The normalizer applied to bounded inputs *)

MaxFrags == 3
MaxApply == 2

\* fragments item names are put together from
NameFrags == {<<"W","i","d","g","e","t">>, <<" ">>, <<"2","4">>, <<" ","4"," ","c","t">>, <<"c","t">>, <<" ","Q","t","y"," ","1"," ","$">>, <<" ","C","a","n","c","e","l","e","d"," ","i","t","e","m","s"," ","(","2",")">>}

RECURSIVE NamesOf(_)
NamesOf(n) ==
    IF n = 0 THEN {<<>>}
    ELSE LET prev == NamesOf(n - 1) IN prev \cup {x \o f : x \in prev, f \in NameFrags}

Names == NamesOf(MaxFrags)

\* the pack-size words of the normalizer's pattern
PackWords == {<<"c","t">>, <<"p","k">>, <<"c","o","u","n","t">>, <<"p","i","e","c","e","s">>, <<"p","i","e","c","e">>, <<"p","a","c","k">>}

\* how the normalizer's input is derived from the base name
Decorations ==
    {[kind |-> "none", unit |-> <<>>], [kind |-> "upper", unit |-> <<>>]}
        \cup [kind : {"plain", "spaced"}, unit : PackWords]

\* 'Widget' -> 'Widget 24 ct' (plain), 'Widget   24   CT' (spaced), 'WIDGET' (upper)
Decorate(base, d) ==
    CASE d.kind = "none" -> base
      [] d.kind = "upper" -> Upper(base)
      [] d.kind = "plain" -> base \o <<" ","2","4"," ">> \o d.unit
      [] d.kind = "spaced" -> base \o <<" "," "," ","2","4"," "," "," ">> \o Upper(d.unit)

InitNormalize ==
    /\ nm_store \in {"Costco", "Sams"}
    /\ nm_base \in Names
    /\ nm_deco \in Decorations
    /\ nm_store = "Costco" => nm_deco.kind \in {"none", "upper"}
    /\ nm_in = Decorate(nm_base, nm_deco)
    /\ nm_hist = <<>>
    /\ IdleAssemble /\ IdleBatch /\ IdleCollate /\ IdleLine

\* one call of normalize_item_name, on the input first and then on its own result
Normalize ==
    /\ Len(nm_hist) < MaxApply
    /\ nm_hist' = Append(nm_hist,
                         normalize_item_name(nm_store,
                                             IF nm_hist = <<>> THEN nm_in
                                             ELSE nm_hist[Len(nm_hist)]))
    /\ UNCHANGED <<nm_store, nm_base, nm_deco, nm_in, asVars, baVars, coVars, lnVars>>

NextNormalize == Normalize

SpecNormalize == InitNormalize /\ [][NextNormalize]_vars

\* C3: normalize_item_name is idempotent in both collators: normalizing a
\* normalized name gives it back unchanged.
C3_NormalizeIdempotent ==
    Len(nm_hist) = MaxApply => nm_hist[MaxApply] = nm_hist[MaxApply - 1]

\* C4: in the Sam's Club normalizer a name with a trailing pack-size token, in
\* either letter case and with any spacing, normalizes to what the name without
\* the token normalizes to.
C4_PackTokenInsensitive ==
    (nm_store = "Sams" /\ nm_deco.kind \in {"plain", "spaced"} /\ Len(nm_hist) = 1)
        => nm_hist[1] = NormalizeSams(nm_base)

C4_Witness ==
    /\ nm_store = "Sams" /\ nm_deco = [kind |-> "spaced", unit |-> <<"p","i","e","c","e","s">>]
    /\ nm_base = <<"W","i","d","g","e","t">> /\ nm_in = <<"W","i","d","g","e","t"," "," "," ","2","4"," "," "," ","P","I","E","C","E","S">>
    /\ Len(nm_hist) >= 1 /\ nm_hist[1] = <<"W","i","d","g","e","t">>

\* C5: two names that differ only in letter case normalize to the same key.
C5_CaseInsensitiveKey ==
    (nm_deco.kind = "upper" /\ Len(nm_hist) >= 1)
        => nm_hist[1] = normalize_item_name(nm_store, nm_base)

-----------------------------------------------------------------------------
(* Line Classifier: is_valid_item *)

\* non_item_keywords of parse_receipts.py
NonItemKeywords ==
    {<<"A","M","O","U","N","T">>, <<"T","O","T","A","L">>, <<"S","U","B","T","O","T","A","L">>, <<"T","A","X">>, <<"B","A","L","A","N","C","E">>, <<"D","U","E">>,
     <<"C","A","S","H">>, <<"C","A","R","D">>, <<"C","R","E","D","I","T">>, <<"D","E","B","I","T">>, <<"P","A","Y","M","E","N","T">>, <<"P","A","I","D">>,
     <<"C","H","A","N","G","E">>, <<"R","E","F","U","N","D">>, <<"D","I","S","C","O","U","N","T">>, <<"C","O","U","P","O","N">>, <<"R","E","W","A","R","D">>,
     <<"R","E","C","E","I","P","T">>, <<"I","N","V","O","I","C","E">>, <<"D","A","T","E">>, <<"T","I","M","E">>, <<"S","T","O","R","E">>, <<"W","A","R","E","H","O","U","S","E">>,
     <<"M","E","M","B","E","R","S","H","I","P">>, <<"T","H","A","N","K">>, <<"Y","O","U">>, <<"V","I","S","I","T">>, <<"A","G","A","I","N">>,
     <<"I","T","E","M">>, <<"D","E","S","C","R","I","P","T","I","O","N">>, <<"Q","T","Y">>, <<"Q","U","A","N","T","I","T","Y">>, <<"P","R","I","C","E">>,
     <<"V","I","S","A">>, <<"M","A","S","T","E","R","C","A","R","D">>, <<"A","M","E","X">>, <<"D","I","S","C","O","V","E","R">>, <<"C","H","E","C","K">>,
     <<"G","I","F","T">>, <<"R","E","M","A","I","N","I","N","G">>, <<"A","P","P","R","O","V","E","D">>,
     <<"P","U","R","C","H","A","S","E">>, <<"C","H","I","P">>, <<"R","E","A","D">>, <<"I","N","S","T","A","N","T">>, <<"S","A","V","I","N","G","S">>}

\* non_item_keywords of parse_sams_club_receipts.py: the same, extended
NonItemKeywordsSams ==
    NonItemKeywords \cup
    {<<"S","H","I","P","P","I","N","G">>, <<"S","A","L","E","S">>, <<"O","R","D","E","R">>, <<"A","U","T","H","O","R","I","Z","A","T","I","O","N">>, <<"P","E","N","D","I","N","G">>,
     <<"C","H","A","R","G","E">>, <<"F","U","N","D","S">>, <<"A","V","A","I","L","A","B","L","E">>, <<"C","R","E","D","I","T"," ","C","A","R","D","S">>}

\* r'^[\d\s#,\-*$]+$'
RxOnlyNumeric == <<Bol, Cls(Digit \cup Space \cup {"#", ",", "-", "*", "$"}, 1, -1), Eol>>
\* r'^[*#$]+\s*\d+\s*[*#$]*$'
RxSymbolNumber == <<Bol, Cls({"*", "#", "$"}, 1, -1), Cls(Space, 0, -1), Cls(Digit, 1, -1),
                    Cls(Space, 0, -1), Cls({"*", "#", "$"}, 0, -1), Eol>>
\* r'^(CASH|CARD|CREDIT|DEBIT|VISA|MASTERCARD)'
RxPaymentMethod == <<Bol, Open(1),
                     Alt(<<<<"C","A","S","H">>, <<"C","A","R","D">>, <<"C","R","E","D","I","T">>, <<"D","E","B","I","T">>, <<"V","I","S","A">>, <<"M","A","S","T","E","R","C","A","R","D">>>>),
                     Close(1)>>

\* a value computed once and used under a name: v bound to the parameter of F
With(v, F(_)) == F(v)

\* '/' in s and s.strip().endswith('-')
IsDiscountLine(s) == Contains(s, <<"/">>) /\ EndsWith(Strip(s), <<"-">>)

IsValidItemWith_NoDiscountTest(keywords, item_name) ==
    With(Strip(Upper(item_name)), LAMBDA item_upper :
    /\ item_name # <<>>
    /\ Len(Strip(item_name)) >= 2
    /\ item_upper \notin keywords
    /\ ~\E kw \in keywords :
            StartsWith(item_upper, kw \o <<":">>) \/ StartsWith(item_upper, kw \o <<" ">>)
    /\ ~ReMatch(RxOnlyNumeric, item_name, FALSE).ok
    /\ ~ReMatch(RxSymbolNumber, item_name, FALSE).ok
    /\ ~ReMatch(RxPaymentMethod, item_upper, FALSE).ok)

\* is_valid_item with the given non-item vocabulary
IsValidItemWith(keywords, item_name) ==
    With(Strip(Upper(item_name)), LAMBDA item_upper :
    /\ item_name # <<>>
    /\ Len(Strip(item_name)) >= 2
    /\ item_upper \notin keywords
    /\ ~\E kw \in keywords :
            StartsWith(item_upper, kw \o <<":">>) \/ StartsWith(item_upper, kw \o <<" ">>)
    /\ ~ReMatch(RxOnlyNumeric, item_name, FALSE).ok
    /\ ~ReMatch(RxSymbolNumber, item_name, FALSE).ok
    /\ ~ReMatch(RxPaymentMethod, item_upper, FALSE).ok
    /\ ~IsDiscountLine(item_name))

\* parse_receipts.is_valid_item
is_valid_item(item_name) == IsValidItemWith(NonItemKeywords, item_name)
\* parse_sams_club_receipts.is_valid_item
is_valid_item_sams(item_name) == IsValidItemWith(NonItemKeywordsSams, item_name)

-----------------------------------------------------------------------------
(* Retailer Line Parsers *)

\* any(skip in line.upper() for skip in words)
ContainsAny(line, words) == \E w \in words : Contains(Upper(line), w)

\* float() of r'\d+\.\d{2}', in cents
ParsePrice(s) ==
    LET dot == CHOOSE k \in 1..Len(s) : s[k] = "."
    IN  100 * ParseInt(SubSeq(s, 1, dot - 1)) + ParseInt(SubSeq(s, dot + 1, Len(s)))

NoRecord == [ok |-> FALSE]

\* the dict a line parser returns; unit_price is the exact quotient num/den cents,
\* total_price is in cents
Record(code, name, quantity, price) ==
    [ok |-> TRUE, item_code |-> code, item_name |-> name, quantity |-> quantity,
     unit_price |-> IF quantity > 1 THEN [num |-> price, den |-> quantity]
                    ELSE [num |-> price, den |-> 1],
     total_price |-> price]

\* the skip words of parse_costco_line
CostcoLineSkip ==
    {<<"S","U","B","T","O","T","A","L">>, <<"T","O","T","A","L">>, <<"T","A","X">>, <<"A","M","O","U","N","T",":">>, <<"C","A","S","H">>, <<"C","H","A","N","G","E">>, <<"A","P","P","R","O","V","E","D">>,
     <<"P","U","R","C","H","A","S","E">>, <<"C","H","I","P">>, <<"R","E","A","D">>, <<"M","E","M","B","E","R">>, <<"O","R","D","E","R","S">>, <<"P","U","R","C","H","A","S","E","S">>}

\* r'^E\s+(\d+)\s+(.+?)\s+(\d+\.\d{2})\s*([YN]?)$'
RxCostcoFull ==
    <<Bol, Lit(<<"E">>), Cls(Space, 1, -1), Open(1), Cls(Digit, 1, -1), Close(1),
      Cls(Space, 1, -1), Open(2), DotLazy(1), Close(2), Cls(Space, 1, -1),
      Open(3), Cls(Digit, 1, -1), Lit(<<".">>), Cls(Digit, 2, 2), Close(3),
      Cls(Space, 0, -1), Open(4), Cls({"Y", "N"}, 0, 1), Close(4), Eol>>
\* r'^E\s+(\d+)\s+(\d+\.\d{2})\s*([YN]?)$'
RxCostcoCodeOnly ==
    <<Bol, Lit(<<"E">>), Cls(Space, 1, -1), Open(1), Cls(Digit, 1, -1), Close(1),
      Cls(Space, 1, -1), Open(2), Cls(Digit, 1, -1), Lit(<<".">>), Cls(Digit, 2, 2), Close(2),
      Cls(Space, 0, -1), Open(3), Cls({"Y", "N"}, 0, 1), Close(3), Eol>>
\* r'^(\d+)\s*x\s+' with re.IGNORECASE
RxQtyPrefix ==
    <<Bol, Open(1), Cls(Digit, 1, -1), Close(1), Cls(Space, 0, -1), Lit(<<"x">>), Cls(Space, 1, -1)>>

\* the code-only form of parse_costco_line: E CODE PRICE [FLAG]
CostcoCodeOnlyForm(line) ==
    With(ReMatch(RxCostcoCodeOnly, line, FALSE), LAMBDA m2 :
        IF m2.ok THEN Record(Group(line, m2, 1), <<>>, 1, ParsePrice(Group(line, m2, 2)))
        ELSE NoRecord)

\* parse_receipts.parse_costco_line
parse_costco_line(raw) ==
    With(Strip(raw), LAMBDA line :
    IF line = <<>> THEN NoRecord
    ELSE IF IsDiscountLine(line) THEN NoRecord
    ELSE IF ContainsAny(line, CostcoLineSkip) THEN NoRecord
    ELSE With(ReMatch(RxCostcoFull, line, FALSE), LAMBDA m1 :
         IF ~m1.ok THEN CostcoCodeOnlyForm(line)
         ELSE With(CollapseSpaces(Strip(Group(line, m1, 2))), LAMBDA desc0 :
              With(ReSearch(RxQtyPrefix, desc0, TRUE), LAMBDA q :
              With(IF q.ok THEN Strip(ReSub(RxQtyPrefix, <<>>, desc0, TRUE)) ELSE desc0,
                   LAMBDA description :
              IF description # <<>>
              THEN Record(Group(line, m1, 1), description,
                          IF q.ok THEN ParseInt(Group(desc0, q, 1)) ELSE 1,
                          ParsePrice(Group(line, m1, 3)))
              ELSE CostcoCodeOnlyForm(line))))))

\* the skip words of parse_sams_club_receipts.parse_sams_club_line
SamsLineSkip ==
    {<<"S","U","B","T","O","T","A","L">>, <<"T","O","T","A","L">>, <<"T","A","X">>, <<"A","M","O","U","N","T",":">>, <<"C","A","S","H">>, <<"C","H","A","N","G","E">>, <<"A","P","P","R","O","V","E","D">>,
     <<"P","U","R","C","H","A","S","E">>, <<"S","H","I","P","P","I","N","G">>, <<"S","A","L","E","S">>, <<"O","R","D","E","R">>, <<"C","R","E","D","I","T"," ","C","A","R","D","S">>}

\* r'^\d+\s+[A-Z]'
RxAddress == <<Bol, Cls(Digit, 1, -1), Cls(Space, 1, -1), Cls(UpperSet, 1, 1)>>
\* r'Qty\s+(\d+)\s+\$(\d+\.\d{2})\s*$' with re.IGNORECASE
RxQtyPrice ==
    <<Lit(<<"Q","t","y">>), Cls(Space, 1, -1), Open(1), Cls(Digit, 1, -1), Close(1), Cls(Space, 1, -1),
      Lit(<<"$">>), Open(2), Cls(Digit, 1, -1), Lit(<<".">>), Cls(Digit, 2, 2), Close(2),
      Cls(Space, 0, -1), Eol>>
\* r'\s+Qty\s*$' with re.IGNORECASE
RxTrailingQty == <<Cls(Space, 1, -1), Lit(<<"Q","t","y">>), Cls(Space, 0, -1), Eol>>
\* r'\$(\d+\.\d{2})\s*$'
RxPriceOnly ==
    <<Lit(<<"$">>), Open(1), Cls(Digit, 1, -1), Lit(<<".">>), Cls(Digit, 2, 2), Close(1),
      Cls(Space, 0, -1), Eol>>
\* r'Qty\s+(\d+)' with re.IGNORECASE
RxQtyInName == <<Lit(<<"Q","t","y">>), Cls(Space, 1, -1), Open(1), Cls(Digit, 1, -1), Close(1)>>
\* r'\s*Qty\s+\d+\s*' with re.IGNORECASE
RxQtyInNameSub ==
    <<Cls(Space, 0, -1), Lit(<<"Q","t","y">>), Cls(Space, 1, -1), Cls(Digit, 1, -1), Cls(Space, 0, -1)>>

IsAddressLine(line) ==
    /\ ReMatch(RxAddress, line, FALSE).ok
    /\ \E w \in {<<"B","L","V","D">>, <<"S","T">>, <<"A","V","E">>, <<"R","D">>} : Contains(line, w)

\* the fallback form of parse_sams_club_line: "Item Name $Price"
SamsPriceOnlyForm(line) ==
    With(ReSearch(RxPriceOnly, line, FALSE), LAMBDA m :
    IF ~m.ok THEN NoRecord
    ELSE With(CollapseSpaces(Strip(Slice(line, 1, m.start))), LAMBDA name0 :
         With(ReSearch(RxQtyInName, name0, TRUE), LAMBDA q :
         With(IF q.ok
              THEN CollapseSpaces(Strip(ReSub(RxQtyInNameSub, <<" ">>, name0, TRUE)))
              ELSE name0,
              LAMBDA item_name :
         IF item_name # <<>> /\ is_valid_item_sams(item_name)
                /\ ParsePrice(Group(line, m, 1)) > 0
         THEN Record(<<>>, item_name,
                     IF q.ok THEN ParseInt(Group(name0, q, 1)) ELSE 1,
                     ParsePrice(Group(line, m, 1)))
         ELSE NoRecord))))

\* parse_sams_club_receipts.parse_sams_club_line
parse_sams_club_line(raw) ==
    With(Strip(raw), LAMBDA line :
    IF line = <<>> THEN NoRecord
    ELSE IF IsDiscountLine(line) THEN NoRecord
    ELSE IF ContainsAny(line, SamsLineSkip) THEN NoRecord
    ELSE IF IsAddressLine(line) THEN NoRecord
    ELSE With(ReSearch(RxQtyPrice, line, TRUE), LAMBDA m :
         IF ~m.ok THEN SamsPriceOnlyForm(line)
         ELSE With(Strip(ReSub(RxTrailingQty, <<>>,
                               CollapseSpaces(Strip(Slice(line, 1, m.start))), TRUE)),
                   LAMBDA item_name :
              IF item_name # <<>> /\ is_valid_item_sams(item_name)
                     /\ ParsePrice(Group(line, m, 2)) > 0
              THEN Record(<<>>, item_name, ParseInt(Group(line, m, 1)),
                          ParsePrice(Group(line, m, 2)))
              ELSE SamsPriceOnlyForm(line))))

\* the skip words of parse_receipts.parse_sams_club_line
SamsLegacyLineSkip ==
    {<<"S","U","B","T","O","T","A","L">>, <<"T","O","T","A","L">>, <<"T","A","X">>, <<"A","M","O","U","N","T",":">>, <<"C","A","S","H">>, <<"C","H","A","N","G","E">>, <<"A","P","P","R","O","V","E","D">>, <<"P","U","R","C","H","A","S","E">>}

\* r'(\d+\.\d{2})\s*$'
RxPriceAtEnd ==
    <<Open(1), Cls(Digit, 1, -1), Lit(<<".">>), Cls(Digit, 2, 2), Close(1), Cls(Space, 0, -1), Eol>>
\* r'^(\d+)\s+'
RxLeadingCode == <<Bol, Open(1), Cls(Digit, 1, -1), Close(1), Cls(Space, 1, -1)>>

\* parse_receipts.parse_sams_club_line
parse_sams_club_line_legacy(raw) ==
    With(Strip(raw), LAMBDA line :
    IF line = <<>> THEN NoRecord
    ELSE IF IsDiscountLine(line) THEN NoRecord
    ELSE IF ContainsAny(line, SamsLegacyLineSkip) THEN NoRecord
    ELSE With(ReSearch(RxPriceAtEnd, line, FALSE), LAMBDA m :
    IF ~m.ok THEN NoRecord
    ELSE With(CollapseSpaces(Strip(Slice(line, 1, m.start))), LAMBDA text0 :
         With(ReSearch(RxLeadingCode, text0, FALSE), LAMBDA c :
         With(IF c.ok THEN Strip(ReSub(RxLeadingCode, <<>>, text0, FALSE)) ELSE text0,
              LAMBDA text1 :
         With(ReSearch(RxQtyPrefix, text1, TRUE), LAMBDA q :
         With(IF q.ok THEN Strip(ReSub(RxQtyPrefix, <<>>, text1, TRUE)) ELSE text1,
              LAMBDA item_text :
         IF is_valid_item(item_text) /\ ParsePrice(Group(line, m, 1)) > 0
         THEN Record(IF c.ok THEN Group(text0, c, 1) ELSE <<>>, item_text,
                     IF q.ok THEN ParseInt(Group(text1, q, 1)) ELSE 1,
                     ParsePrice(Group(line, m, 1)))
         ELSE NoRecord)))))))

-----------------------------------------------------------------------------
(* Receipt Assembler *)

\* lines[j].strip() for the 0-based index j of the source
LineAt(lines, j) == Strip(lines[j + 1])

Max(a, b) == IF a >= b THEN a ELSE b
Min(a, b) == IF a <= b THEN a ELSE b

\* the item appended to `items`
Emitted(info, name, store) ==
    [item_code |-> info.item_code, item_name |-> name, quantity |-> info.quantity,
     unit_price |-> info.unit_price, total_price |-> info.total_price, store |-> store]

\* header words of parse_costco_receipt
CostcoHeaderSkip ==
    {<<"C","O","S","T","C","O">>, <<"W","A","R","E","H","O","U","S","E">>, <<"M","E","M","B","E","R">>, <<"O","R","D","E","R","S">>, <<"P","U","R","C","H","A","S","E","S">>, <<"L","Y","N","N","W","O","O","D">>,
     <<"H","I","G","H","W","A","Y">>, <<"H","T","T","P">>, <<"W","W","W">>}
\* words that rule a neighbouring line out as a description
CostcoStitchSkip == {<<"T","O","T","A","L">>, <<"S","U","B","T","O","T","A","L">>, <<"T","A","X">>, <<"C","A","S","H">>, <<"M","E","M","B","E","R">>}
\* how many lines back and forth a description is looked for
StitchWindow == 2

\* r'^\d+\.\d{2}'
RxLeadingPrice == <<Bol, Cls(Digit, 1, -1), Lit(<<".">>), Cls(Digit, 2, 2)>>

\* the test parse_costco_receipt puts on a neighbouring (stripped) line
UsableFragment_NoDiscountTest(l) ==
    /\ l # <<>>
    /\ ~StartsWith(l, <<"E"," ">>)
    /\ ~ReMatch(RxLeadingPrice, l, FALSE).ok
    /\ ~ContainsAny(l, CostcoStitchSkip)

UsableFragment(l) ==
    /\ l # <<>>
    /\ ~StartsWith(l, <<"E"," ">>)
    /\ ~ReMatch(RxLeadingPrice, l, FALSE).ok
    /\ ~(Contains(l, <<"/">>) /\ EndsWith(l, <<"-">>))
    /\ ~ContainsAny(l, CostcoStitchSkip)

\* the backward loop: for j in range(max(0, i-2), i), usable lines inserted at index 0
RECURSIVE BackwardParts(_, _, _, _)
BackwardParts(lines, j, i, parts) ==
    IF j >= i THEN parts
    ELSE BackwardParts(lines, j + 1, i,
                       IF UsableFragment(LineAt(lines, j))
                       THEN <<LineAt(lines, j)>> \o parts ELSE parts)

\* the forward loop: the first usable j in range(i+1, min(len(lines), i+3)), or -1
RECURSIVE ForwardIndex(_, _, _)
ForwardIndex(lines, j, stop) ==
    IF j >= stop THEN -1
    ELSE IF UsableFragment(LineAt(lines, j)) THEN j
    ELSE ForwardIndex(lines, j + 1, stop)

\* ' '.join(parts)
RECURSIVE JoinSpace(_)
JoinSpace(parts) ==
    IF parts = <<>> THEN <<>>
    ELSE IF Len(parts) = 1 THEN parts[1]
    ELSE parts[1] \o <<" ">> \o JoinSpace(Tail(parts))

EmitCostco_NoGate(info, name) == <<Emitted(info, name, "Costco")>>

\* the final test before items.append in parse_costco_receipt
EmitCostco(info, name) ==
    IF name # <<>> /\ is_valid_item(name) THEN <<Emitted(info, name, "Costco")>> ELSE <<>>

CostcoIter_NoIncrementAfterStitch(lines, i) ==
    With(LineAt(lines, i), LAMBDA line :
    IF ContainsAny(line, CostcoHeaderSkip) THEN [i |-> i + 1, emit |-> <<>>]
    ELSE With(parse_costco_line(line), LAMBDA info :
    IF ~info.ok THEN [i |-> i + 1, emit |-> <<>>]
    ELSE IF ~ReMatch(RxCostcoCodeOnly, line, FALSE).ok
         THEN [i |-> i + 1, emit |-> EmitCostco(info, info.item_name)]
    ELSE With(ForwardIndex(lines, i + 1, Min(Len(lines), i + 1 + StitchWindow)),
              LAMBDA fwd :
         With((BackwardParts(lines, Max(0, i - StitchWindow), i, <<>>))
                  \o (IF fwd >= 0 THEN <<LineAt(lines, fwd)>> ELSE <<>>),
              LAMBDA description_parts :
         [i |-> (IF fwd >= 0 THEN fwd ELSE i),
          emit |-> EmitCostco(info,
                              IF description_parts # <<>>
                              THEN CollapseSpaces(Strip(JoinSpace(description_parts)))
                              ELSE info.item_name)]))))

\* one iteration of the while loop of parse_costco_receipt at cursor i:
\* the cursor after it and the items it appends
CostcoIter(lines, i) ==
    With(LineAt(lines, i), LAMBDA line :
    IF ContainsAny(line, CostcoHeaderSkip) THEN [i |-> i + 1, emit |-> <<>>]
    ELSE With(parse_costco_line(line), LAMBDA info :
    IF ~info.ok THEN [i |-> i + 1, emit |-> <<>>]
    ELSE IF ~ReMatch(RxCostcoCodeOnly, line, FALSE).ok
         THEN [i |-> i + 1, emit |-> EmitCostco(info, info.item_name)]
    ELSE With(ForwardIndex(lines, i + 1, Min(Len(lines), i + 1 + StitchWindow)),
              LAMBDA fwd :
         With((BackwardParts(lines, Max(0, i - StitchWindow), i, <<>>))
                  \o (IF fwd >= 0 THEN <<LineAt(lines, fwd)>> ELSE <<>>),
              LAMBDA description_parts :
         [i |-> (IF fwd >= 0 THEN fwd ELSE i) + 1,
          emit |-> EmitCostco(info,
                              IF description_parts # <<>>
                              THEN CollapseSpaces(Strip(JoinSpace(description_parts)))
                              ELSE info.item_name)]))))

\* header words of parse_sams_club_receipts.parse_sams_club_receipt
SamsHeaderSkip ==
    {<<"S","A","M","'","S">>, <<"C","L","U","B">>, <<"M","E","M","B","E","R">>, <<"H","T","T","P">>, <<"W","W","W">>, <<"S","H","I","P","P","I","N","G"," ","I","T","E","M","S">>, <<"O","R","D","E","R">>, <<"H","U","G","H">>,
     <<"G","R","A","M","E","L","S","P","A","C","H","E","R">>, <<"N","E">>, <<"B","L","V","D">>, <<"S","E","A","T","T","L","E">>, <<"W","A">>}
\* words that rule the next line out as a continuation
SamsContinuationSkip == {<<"T","O","T","A","L">>, <<"S","U","B","T","O","T","A","L">>, <<"T","A","X">>, <<"C","A","S","H">>, <<"S","H","I","P","P","I","N","G">>}
\* a continuation line is shorter than this
ContinuationMaxLen == 50

\* r'Qty\s+\d+\s+\$' with re.IGNORECASE
RxQtyDollar == <<Lit(<<"Q","t","y">>), Cls(Space, 1, -1), Cls(Digit, 1, -1), Cls(Space, 1, -1), Lit(<<"$">>)>>
\* r'\$\d+\.\d{2}'
RxDollarPrice == <<Lit(<<"$">>), Cls(Digit, 1, -1), Lit(<<".">>), Cls(Digit, 2, 2)>>

IsContinuation_AnyLength(l) ==
    /\ l # <<>>
    /\ ~ReSearch(RxQtyDollar, l, TRUE).ok
    /\ ~ReSearch(RxDollarPrice, l, FALSE).ok
    /\ ~ContainsAny(l, SamsContinuationSkip)

\* the test parse_sams_club_receipt puts on the next (stripped) line
IsContinuation(l) ==
    /\ l # <<>>
    /\ Len(l) < ContinuationMaxLen
    /\ ~ReSearch(RxQtyDollar, l, TRUE).ok
    /\ ~ReSearch(RxDollarPrice, l, FALSE).ok
    /\ ~ContainsAny(l, SamsContinuationSkip)

\* the final test before items.append in parse_sams_club_receipts.parse_sams_club_receipt
EmitSams(info, name) ==
    IF name # <<>> /\ is_valid_item_sams(name)
    THEN <<Emitted(info, name, "Sam's Club")>> ELSE <<>>

\* one iteration of the while loop of parse_sams_club_receipts.parse_sams_club_receipt
SamsIter(lines, i) ==
    With(LineAt(lines, i), LAMBDA line :
    IF ContainsAny(line, SamsHeaderSkip) THEN [i |-> i + 1, emit |-> <<>>]
    ELSE With(parse_sams_club_line(line), LAMBDA info :
    IF ~info.ok THEN [i |-> i + 1, emit |-> <<>>]
    ELSE IF i + 1 < Len(lines) /\ IsContinuation(LineAt(lines, i + 1))
         THEN [i |-> i + 2,
               emit |-> EmitSams(info, Strip(CollapseSpaces(info.item_name \o <<" ">>
                                                            \o LineAt(lines, i + 1))))]
         ELSE [i |-> i + 1, emit |-> EmitSams(info, info.item_name)]))

\* header words of parse_receipts.parse_sams_club_receipt
SamsLegacyHeaderSkip == {<<"S","A","M","'","S">>, <<"C","L","U","B">>, <<"M","E","M","B","E","R">>, <<"H","T","T","P">>, <<"W","W","W">>}

\* one iteration of the while loop of parse_receipts.parse_sams_club_receipt
SamsLegacyIter(lines, i) ==
    With(LineAt(lines, i), LAMBDA line :
    IF ContainsAny(line, SamsLegacyHeaderSkip) THEN [i |-> i + 1, emit |-> <<>>]
    ELSE With(parse_sams_club_line_legacy(line), LAMBDA info :
    IF ~info.ok THEN [i |-> i + 1, emit |-> <<>>]
    ELSE [i |-> i + 1, emit |-> <<Emitted(info, info.item_name, "Sam's Club")>>]))

AssemblerIter(fmt, lines, i) ==
    CASE fmt = "A" -> CostcoIter(lines, i)
      [] fmt = "B" -> SamsIter(lines, i)
      [] fmt = "Blegacy" -> SamsLegacyIter(lines, i)

\* the whole loop: the items of one document
RECURSIVE AssembleFrom(_, _, _, _)
AssembleFrom(fmt, lines, i, items) ==
    IF i >= Len(lines) THEN items
    ELSE With(AssemblerIter(fmt, lines, i), LAMBDA r :
              AssembleFrom(fmt, lines, r.i, items \o r.emit))

Assemble(fmt, lines) == AssembleFrom(fmt, lines, 0, <<>>)

-----------------------------------------------------------------------------
(* One receipt through its assembler *)

MaxLines == 3

\* text lines Costco receipts are put together from
PoolA ==
    {<<"E"," ","1","0","0"," ","2"," ","x"," ","W","i","d","g","e","t"," ","1","0",".","0","0"," ","Y">>, <<"E"," ","1","0","0"," ","0"," ","x"," ","W","i","d","g","e","t"," ","1","0",".","0","0"," ","Y">>, <<"E"," ","2","0","0"," ","4","4",".","9","7"," ","N">>,
     <<"B","i","g"," ","W","i","d","g","e","t">>, <<"D","e","l","u","x","e">>, <<"1","2","3","/","4","5","6"," ","5",".","0","0","-">>, <<"T","O","T","A","L"," ","5","9",".","9","7">>, <<>>,
     <<"E"," ","7","8","2","7","9","6"," ","*","*","*","K","S","W","T","R","4","0","P","K"," ","1","1",".","9","7"," ","Y">>}
\* text lines Sam's Club receipts are put together from
PoolB ==
    {<<"W","i","d","g","e","t"," ","Q","t","y"," ","2"," ","$","5",".","0","0">>, <<"W","i","d","g","e","t"," ","Q","t","y"," ","0"," ","$","5",".","0","0">>,
     <<"R","e","d"," ","B","u","l","l"," ","E","n","e","r","g","y"," ","S","u","g","a","r","-","F","r","e","e"," ","8",".","4"," ","f","l","."," ","o","z",".",","," ","2","4"," ","p","k","."," ","Q","t","y"," ","1"," ","$","3","4",".","9","8">>,
     <<"G","a","d","g","e","t"," ","$","3",".","0","0">>, <<"D","e","l","u","x","e">>, <<"T","O","T","A","L"," ","$","8",".","0","0">>, <<>>, <<"1","2","3","/","4","5","6"," ","5",".","0","0","-">>,
     <<"A","s","s","o","r","t","e","d"," ","F","l","a","v","o","r","s"," ","V","a","r","i","e","t","y"," ","P","a","c","k"," ","W","i","t","h"," ","B","o","n","u","s"," ","S","i","z","e"," ","B","a","g","!">>, <<"S","a","l","e","s"," ","T","a","x">>}
\* the same for the Sam's Club parser of parse_receipts.py
PoolBLegacy ==
    {<<"1","0","0"," ","2"," ","x"," ","W","i","d","g","e","t"," ","5",".","0","0">>, <<"1","0","0"," ","0"," ","x"," ","W","i","d","g","e","t"," ","5",".","0","0">>, <<"W","i","d","g","e","t"," ","Q","t","y"," ","2"," ","$","5",".","0","0">>,
     <<"G","a","d","g","e","t"," ","$","3",".","0","0">>, <<"D","e","l","u","x","e">>, <<"T","O","T","A","L"," ","8",".","0","0">>, <<>>, <<"1","2","3","/","4","5","6"," ","5",".","0","0","-">>}

PoolOf(fmt) ==
    CASE fmt = "A" -> PoolA
      [] fmt = "B" -> PoolB
      [] fmt = "Blegacy" -> PoolBLegacy

\* the sequences of at most n members of S
RECURSIVE SeqsUpTo(_, _)
SeqsUpTo(S, n) ==
    IF n = 0 THEN {<<>>}
    ELSE LET prev == SeqsUpTo(S, n - 1) IN prev \cup {Append(x, e) : x \in prev, e \in S}

\* full_text.split('\n'): every page's text is followed by "\n", so the lines of
\* the pages are followed by one empty line
SplitLines(pageLines) == Append(pageLines, <<>>)

InitAssemble ==
    /\ as_fmt \in {"A", "B", "Blegacy"}
    /\ \E content \in SeqsUpTo(PoolOf(as_fmt), MaxLines) : as_lines = SplitLines(content)
    /\ as_i = 0
    /\ as_items = <<>>
    /\ as_pc = "loop"
    /\ IdleNormalize /\ IdleBatch /\ IdleCollate /\ IdleLine

\* one iteration of `while i < len(lines)` of parse_costco_receipt
StepCostco ==
    /\ as_pc = "loop" /\ as_fmt = "A" /\ as_i < Len(as_lines)
    /\ With(CostcoIter(as_lines, as_i), LAMBDA r :
            as_i' = r.i /\ as_items' = as_items \o r.emit)
    /\ UNCHANGED <<as_fmt, as_lines, as_pc, nmVars, baVars, coVars, lnVars>>

\* one iteration of the loop of parse_sams_club_receipts.parse_sams_club_receipt
StepSams ==
    /\ as_pc = "loop" /\ as_fmt = "B" /\ as_i < Len(as_lines)
    /\ With(SamsIter(as_lines, as_i), LAMBDA r :
            as_i' = r.i /\ as_items' = as_items \o r.emit)
    /\ UNCHANGED <<as_fmt, as_lines, as_pc, nmVars, baVars, coVars, lnVars>>

\* one iteration of the loop of parse_receipts.parse_sams_club_receipt
StepSamsLegacy ==
    /\ as_pc = "loop" /\ as_fmt = "Blegacy" /\ as_i < Len(as_lines)
    /\ With(SamsLegacyIter(as_lines, as_i), LAMBDA r :
            as_i' = r.i /\ as_items' = as_items \o r.emit)
    /\ UNCHANGED <<as_fmt, as_lines, as_pc, nmVars, baVars, coVars, lnVars>>

\* the loop ends and the assembler returns `items`
AssembleReturn ==
    /\ as_pc = "loop" /\ as_i >= Len(as_lines)
    /\ as_pc' = "done"
    /\ UNCHANGED <<as_fmt, as_lines, as_i, as_items, nmVars, baVars, coVars, lnVars>>

NextAssemble == StepCostco \/ StepSams \/ StepSamsLegacy \/ AssembleReturn

SpecAssemble == InitAssemble /\ [][NextAssemble]_vars

\* abs(total_price - unit_price * quantity) < 0.01, in cents and over the
\* denominator of unit_price
PriceConsistent(r) ==
    LET d == r.total_price * r.unit_price.den - r.unit_price.num * r.quantity
    IN  (IF d >= 0 THEN d ELSE -d) < r.unit_price.den

\* C1: every record emitted by a receipt assembler has quantity >= 1 and
\* total_price equal to unit_price * quantity within a cent.
C1_EmittedRecordInvariant ==
    \A k \in 1..Len(as_items) :
        as_items[k].quantity >= 1 /\ PriceConsistent(as_items[k])

-----------------------------------------------------------------------------
(* Collators: arithmetic and ordering helpers *)

\* a quotient of two non-negative integers; den = 0 is float infinity (num > 0)
\* or NaN (num = 0), as pandas' division gives
Quot(n, d) == [num |-> n, den |-> d]
IsNaN(q) == q.num = 0 /\ q.den = 0
IsInf(q) == q.num > 0 /\ q.den = 0
QLess(a, b) == a.num * b.den < b.num * a.den

\* round(n / d), d > 0: Python rounds halves to the even neighbour
RoundHalfEven(n, d) ==
    LET q == n \div d
        r == n % d
    IN  IF 2 * r < d THEN q
        ELSE IF 2 * r > d THEN q + 1
        ELSE IF q % 2 = 0 THEN q ELSE q + 1

\* the k-th smallest member of a sequence of quotients without NaN
KthSmallest(vals, k) ==
    vals[CHOOSE i \in 1..Len(vals) :
            /\ Cardinality({j \in 1..Len(vals) : QLess(vals[j], vals[i])}) < k
            /\ k <= Cardinality({j \in 1..Len(vals) : ~QLess(vals[i], vals[j])})]

RECURSIVE DropNaN(_)
DropNaN(vals) ==
    IF vals = <<>> THEN <<>>
    ELSE IF IsNaN(Head(vals)) THEN DropNaN(Tail(vals))
    ELSE <<Head(vals)>> \o DropNaN(Tail(vals))

\* Series.median(): NaN skipped; the middle value, or the mean of the two middle
\* values; NaN for an empty series
MedianOf(all) ==
    With(DropNaN(all), LAMBDA vals :
    IF vals = <<>> THEN Quot(0, 0)
    ELSE IF Len(vals) % 2 = 1 THEN KthSmallest(vals, (Len(vals) + 1) \div 2)
    ELSE With(KthSmallest(vals, Len(vals) \div 2), LAMBDA a :
         With(KthSmallest(vals, Len(vals) \div 2 + 1), LAMBDA b :
         IF IsInf(a) \/ IsInf(b) THEN Quot(1, 0)
         ELSE Quot(a.num * b.den + b.num * a.den, 2 * a.den * b.den))))

\* the characters of the modelled names in code-point order, for the order of str
AsciiSeq == <<" ","!","#","$","%","&","'","(",")","*","+",",","-",".","/","0","1","2","3","4","5","6","7","8","9",":",";","<","=",">","?","@","A","B","C","D","E","F","G","H","I","J","K","L","M","N","O","P","Q","R","S","T","U","V","W","X","Y","Z","[","]","^","_","a","b","c","d","e","f","g","h","i","j","k","l","m","n","o","p","q","r","s","t","u","v","w","x","y","z","{","|","}","~">>
Ord(c) == CHOOSE k \in 1..Len(AsciiSeq) : AsciiSeq[k] = c

\* a < b for str
RECURSIVE StrLess(_, _)
StrLess(a, b) ==
    IF b = <<>> THEN FALSE
    ELSE IF a = <<>> THEN TRUE
    ELSE IF Head(a) = Head(b) THEN StrLess(Tail(a), Tail(b))
    ELSE Ord(Head(a)) < Ord(Head(b))

\* the keys of a groupby, sorted
RECURSIVE SortInts(_)
SortInts(S) ==
    IF S = {} THEN <<>>
    ELSE LET m == CHOOSE x \in S : \A y \in S : x <= y IN <<m>> \o SortInts(S \ {m})
RECURSIVE SortStrs(_)
SortStrs(S) ==
    IF S = {} THEN <<>>
    ELSE LET m == CHOOSE x \in S : \A y \in S : x = y \/ StrLess(x, y)
         IN  <<m>> \o SortStrs(S \ {m})

\* sum of a column
RECURSIVE SumSeq(_)
SumSeq(nums) == IF nums = <<>> THEN 0 ELSE Head(nums) + SumSeq(Tail(nums))
SumOf(rows, Col(_)) == SumSeq([k \in 1..Len(rows) |-> Col(rows[k])])

Range(f) == {f[k] : k \in DOMAIN f}

-----------------------------------------------------------------------------
(* Catalog lookup: scrape_costco_item_info *)

\* the shortest name the lookup rejects: len(product_name) > 3
MinNameLen == 3

\* what a return statement hands back: a bare str, or a (name, price) tuple;
\* price 0 is None
BareName(name) == [shape |-> "str", name |-> name, price |-> 0]
NamePrice(name, price) == [shape |-> "pair", name |-> name, price |-> price]

\* page is what the remote site answers: status "ok" with the text of the h1
\* tag, the name methods 2-4 find and the price the price methods find, or a
\* status that raises inside the try block
scrape_costco_item_info(item_code, fallback_name, page) ==
    IF item_code < 0 THEN BareName(fallback_name)
    ELSE IF page.status # "ok" THEN NamePrice(fallback_name, 0)
    ELSE IF Len(page.h1) > MinNameLen THEN BareName(page.h1)
    ELSE With(IF page.title # <<>> THEN page.title ELSE page.h1, LAMBDA product_name :
         IF Len(product_name) > MinNameLen
         THEN NamePrice(product_name, page.price)
         ELSE NamePrice(fallback_name, 0))

-----------------------------------------------------------------------------
(* Costco collator: collate_costco_items *)

\* the first pass keeping the first cost of a code instead of the sum
GroupByCode_FirstCost(recs) ==
    With(SortInts({recs[k].item_code : k \in 1..Len(recs)} \ {-1}), LAMBDA codes :
    [k \in 1..Len(codes) |->
        With(SelectSeq(recs, LAMBDA r : r.item_code = codes[k]), LAMBDA rows :
        [item_code |-> codes[k], item |-> rows[1].item,
         cost |-> rows[1].cost,
         unit_number |-> SumOf(rows, LAMBDA r : r.unit_number)])])

\* df.groupby('item_code').agg(first, sum, sum).reset_index(): one row per
\* present code, in code order; absent codes (negative here) are dropped
GroupByCode(recs) ==
    With(SortInts({recs[k].item_code : k \in 1..Len(recs)} \ {-1}), LAMBDA codes :
    [k \in 1..Len(codes) |->
        With(SelectSeq(recs, LAMBDA r : r.item_code = codes[k]), LAMBDA rows :
        [item_code |-> codes[k], item |-> rows[1].item,
         cost |-> SumOf(rows, LAMBDA r : r.cost),
         unit_number |-> SumOf(rows, LAMBDA r : r.unit_number)])])

\* scraped_info[code] = (name, price) when the lookup gave a new name
StoreInfo(info, code, fallback, result) ==
    IF result.name # <<>> /\ result.name # fallback
    THEN Append(info, [code |-> code, name |-> result.name, price |-> result.price])
    ELSE info

\* lines 227-234: the looked-up name replaces the receipt name, a truthy price
\* becomes the reference price
Enrich(grouped, info) ==
    [k \in 1..Len(grouped) |->
        IF \E e \in Range(info) : e.code = grouped[k].item_code
        THEN With(CHOOSE e \in Range(info) : e.code = grouped[k].item_code, LAMBDA e :
             [item_code |-> grouped[k].item_code, item |-> e.name,
              cost |-> grouped[k].cost, unit_number |-> grouped[k].unit_number,
              scraped_price |-> e.price])
        ELSE [item_code |-> grouped[k].item_code, item |-> grouped[k].item,
              cost |-> grouped[k].cost, unit_number |-> grouped[k].unit_number,
              scraped_price |-> 0]]

\* the reference price of the first member, absent or not
FirstPrice_FirstRow(rows) == rows[1].scraped_price

\* x.dropna().iloc[0] if len(x.dropna()) > 0 else None
FirstPrice(rows) ==
    IF \E k \in 1..Len(rows) : rows[k].scraped_price # 0
    THEN rows[CHOOSE k \in 1..Len(rows) :
                /\ rows[k].scraped_price # 0
                /\ \A j \in 1..(k - 1) : rows[j].scraped_price = 0].scraped_price
    ELSE 0

\* line 237: grouped['normalized_item']
WithNormalizedItem(grouped) ==
    [k \in 1..Len(grouped) |->
        [item_code |-> grouped[k].item_code, item |-> grouped[k].item,
         cost |-> grouped[k].cost, unit_number |-> grouped[k].unit_number,
         scraped_price |-> grouped[k].scraped_price,
         normalized_item |-> NormalizeCostco(grouped[k].item)]]

\* lines 241-246: one row per normalized name, in key order; the key column is
\* dropped
Regroup(grouped) ==
    With(SortStrs({grouped[k].normalized_item : k \in 1..Len(grouped)}), LAMBDA keys :
    [k \in 1..Len(keys) |->
        With(SelectSeq(grouped, LAMBDA g : g.normalized_item = keys[k]), LAMBDA rows :
        [item |-> rows[1].item,
         cost |-> SumOf(rows, LAMBDA g : g.cost),
         unit_number |-> SumOf(rows, LAMBDA g : g.unit_number),
         scraped_price |-> FirstPrice(rows)])])

\* (aggregated['cost'] / aggregated['unit_number']).median()
MedianCostPerUnit(agg) ==
    MedianOf([k \in 1..Len(agg) |-> Quot(agg[k].cost, agg[k].unit_number)])

\* cost_per_unit > median_cost_per_unit * 1.5, for a row without reference price
AboveCohort(row, median) ==
    /\ ~IsNaN(median)
    /\ QLess(Quot(3 * median.num, 2 * median.den),
             IF row.unit_number > 0 THEN Quot(row.cost, row.unit_number) ELSE Quot(row.cost, 1))

\* the cohort pass without the `continue` of line 275
ResolveQuantity_CohortOverwrites(row, median) ==
    IF AboveCohort(row, median) /\ median.num > 0
    THEN Max(row.unit_number, RoundHalfEven(row.cost * median.den, median.num))
    ELSE IF row.scraped_price > 0
    THEN Max(1, RoundHalfEven(row.cost, row.scraped_price))
    ELSE row.unit_number

\* lines 249-285 for one row
ResolveQuantity(row, median) ==
    IF row.scraped_price > 0
    THEN Max(1, RoundHalfEven(row.cost, row.scraped_price))
    ELSE IF AboveCohort(row, median)
    THEN Max(row.unit_number, RoundHalfEven(row.cost * median.den, median.num))
    ELSE row.unit_number

\* round(cost / estimated_unit_price) with a zero median: the quotient is not a
\* finite number and round() raises
ResolveRaises(agg, median) ==
    \E k \in 1..Len(agg) :
        agg[k].scraped_price = 0 /\ AboveCohort(agg[k], median) /\ median.num = 0

Resolve(agg) ==
    With(MedianCostPerUnit(agg), LAMBDA median :
    [k \in 1..Len(agg) |->
        [item |-> agg[k].item, cost |-> agg[k].cost, unit_number |-> agg[k].unit_number,
         scraped_price |-> agg[k].scraped_price,
         quantity |-> ResolveQuantity(agg[k], median)]])

\* the orders sort_values('total_cost', ascending=False) may leave the rows
\* in: descending cost, rows of equal cost in any order
SortedOrders_Ascending(agg) ==
    {p \in [1..Len(agg) -> 1..Len(agg)] :
        /\ \A i, j \in 1..Len(agg) : i # j => p[i] # p[j]
        /\ \A i \in 1..(Len(agg) - 1) : agg[p[i]].cost <= agg[p[i + 1]].cost}

SortedOrders(agg) ==
    {p \in [1..Len(agg) -> 1..Len(agg)] :
        /\ \A i, j \in 1..Len(agg) : i # j => p[i] # p[j]
        /\ \A i \in 1..(Len(agg) - 1) : agg[p[i]].cost >= agg[p[i + 1]].cost}

OutputRows(agg, p) ==
    [k \in 1..Len(agg) |->
        [item |-> agg[p[k]].item, quantity |-> agg[p[k]].quantity, total_cost |-> agg[p[k]].cost]]

-----------------------------------------------------------------------------
(* Sam's Club collator: extract_pack_size, collate_sams_club_items *)

\* r'(\d+)\s*ct\b' and the four patterns after it, tried in this order
RxPackSize(unit) == <<Open(1), Cls(Digit, 1, -1), Close(1), Cls(Space, 0, -1), Lit(unit), WordB>>
RxPackPieces == <<Open(1), Cls(Digit, 1, -1), Close(1), Cls(Space, 0, -1), Lit(<<"p","i","e","c","e">>),
                  Cls({"s"}, 0, 1), WordB>>
PackPatterns == <<RxPackSize(<<"c","t">>), RxPackSize(<<"p","k">>), RxPackSize(<<"c","o","u","n","t">>), RxPackPieces,
                  RxPackSize(<<"p","a","c","k">>)>>

RECURSIVE PackSizeFrom(_, _)
PackSizeFrom(item_name, k) ==
    IF k > Len(PackPatterns) THEN 1
    ELSE With(ReSearch(PackPatterns[k], item_name, TRUE), LAMBDA m :
         IF m.ok THEN ParseInt(Group(item_name, m, 1)) ELSE PackSizeFrom(item_name, k + 1))

extract_pack_size(item_name) == IF item_name = <<>> THEN 1 ELSE PackSizeFrom(item_name, 1)

\* lines 74-91: one row per normalized name, in key order
SamsAggregate(recs) ==
    With(SortStrs({NormalizeSams(recs[k].item) : k \in 1..Len(recs)}), LAMBDA keys :
    [k \in 1..Len(keys) |->
        With(SelectSeq(recs, LAMBDA r : NormalizeSams(r.item) = keys[k]), LAMBDA rows :
        [item |-> rows[1].item,
         quantity |-> SumOf(rows, LAMBDA r : r.unit_number * extract_pack_size(r.item)),
         cost |-> SumOf(rows, LAMBDA r : r.cost),
         unit_number |-> SumOf(rows, LAMBDA r : r.unit_number)])])

-----------------------------------------------------------------------------
(* Collator specification: one intermediate CSV through its collator *)

MaxRecs == 3

Rec(code, item, unit_number, cost) ==
    [item_code |-> code, item |-> item, unit_number |-> unit_number, cost |-> cost]

\* rows of receipts_costco.csv; cost in cents; item_code -1 is an empty cell
CostcoRecPool ==
    { Rec(100, <<"W","i","d","g","e","t"," ","A">>, 1, 900),
      Rec(100, <<"W","i","d","g","e","t"," ","B">>, 2, 1000),
      Rec(200, <<"W","i","d","g","e","t"," "," ","A">>, 1, 500),
      Rec(200, <<"G","a","d","g","e","t">>, 0, 250),
      Rec(300, <<"W","I","D","G","E","T"," ","A">>, 1, 500),
      Rec(300, <<"S","a","m","p","l","e">>, 1, 0),
      Rec(400, <<"G","a","d","g","e","t">>, 1, 0),
      Rec(-1, <<"L","o","o","s","e">>, 1, 300) }

\* rows of receipts_sams_club.csv
SamsRecPool ==
    { Rec(-1, <<"W","a","t","e","r"," ","2","4"," ","c","t">>, 1, 500),
      Rec(-1, <<"W","a","t","e","r"," "," ","4","0"," ","p","k">>, 2, 1000),
      Rec(-1, <<"W","A","T","E","R"," ","2","4"," ","C","T">>, 1, 500),
      Rec(-1, <<"W","i","d","g","e","t"," ","0"," ","c","t">>, 1, 500),
      Rec(-1, <<"C","h","i","p","s">>, 1, 300),
      Rec(-1, <<"C","h","i","p","s">>, 0, 300),
      Rec(-1, <<"S","o","d","a"," ","1","2"," ","p","a","c","k"," ","6"," ","c","t">>, 1, 0) }

Page(status, h1, title, price) == [status |-> status, h1 |-> h1, title |-> title, price |-> price]

\* answers of the remote site
Pages ==
    { Page("ok", <<"W","i","d","g","e","t"," ","D","e","l","u","x","e">>, <<>>, 0),
      Page("ok", <<>>, <<"W","i","d","g","e","t"," ","D","e","l","u","x","e">>, 500),
      Page("ok", <<>>, <<"W","i","d","g","e","t"," ","D","e","l","u","x","e">>, 0),
      Page("ok", <<>>, <<"W","i","d","g","e","t"," ","A">>, 450),
      Page("ok", <<"K","i","t">>, <<>>, 250),
      Page("timeout", <<>>, <<>>, 0),
      Page("request_error", <<>>, <<>>, 0),
      Page("error", <<>>, <<>>, 0) }

\* the exceptions that leave a collator
Raised == {"ValueError", "KeyError", "OverflowError"}

InitCollate ==
    /\ IdleNormalize /\ IdleAssemble /\ IdleBatch /\ IdleLine
    /\ co_store \in {"Costco", "Sams"}
    /\ co_recs \in SeqsUpTo(IF co_store = "Costco" THEN CostcoRecPool ELSE SamsRecPool, MaxRecs) \ {<<>>}
    /\ co_scrape \in (IF co_store = "Costco" THEN BOOLEAN ELSE {FALSE})
    /\ co_pc = "start"
    /\ co_grouped = <<>> /\ co_k = 0 /\ co_info = <<>> /\ co_agg = <<>> /\ co_rows = <<>>
    /\ co_clock = 0 /\ co_log = <<>>

\* lines 184-199
CoGroupByCode ==
    /\ co_store = "Costco" /\ co_pc = "start"
    /\ co_grouped' = GroupByCode(co_recs)
    /\ co_pc' = IF co_scrape THEN "lookup" ELSE "regroup"
    /\ UNCHANGED <<co_store, co_recs, co_scrape, co_k, co_info, co_agg, co_rows, co_clock, co_log>>
    /\ UNCHANGED <<nmVars, asVars, baVars, lnVars>>

\* lines 208-221: one lookup; a bare str cannot be unpacked into two names
CoLookup ==
    /\ co_pc = "lookup" /\ co_k < Len(co_grouped)
    /\ \E page \in Pages :
        With(co_grouped[co_k + 1], LAMBDA g :
        With(scrape_costco_item_info(g.item_code, g.item, page), LAMBDA result :
            /\ co_log' = Append(co_log, [code |-> g.item_code, at |-> co_clock,
                                         result |-> result])
            /\ IF result.shape = "str"
               THEN co_pc' = "ValueError" /\ co_info' = co_info
               ELSE co_pc' = "sleep" /\ co_info' = StoreInfo(co_info, g.item_code, g.item, result)))
    /\ UNCHANGED <<co_store, co_recs, co_scrape, co_grouped, co_k, co_agg, co_rows, co_clock>>
    /\ UNCHANGED <<nmVars, asVars, baVars, lnVars>>

CoSleep_NoPause ==
    /\ co_pc = "sleep"
    /\ co_k' = co_k + 1
    /\ co_pc' = "lookup"
    /\ UNCHANGED <<co_store, co_recs, co_scrape, co_grouped, co_info, co_agg, co_rows, co_clock, co_log>>
    /\ UNCHANGED <<nmVars, asVars, baVars, lnVars>>

\* line 224
CoSleep ==
    /\ co_pc = "sleep"
    /\ co_clock' = co_clock + 1
    /\ co_k' = co_k + 1
    /\ co_pc' = "lookup"
    /\ UNCHANGED <<co_store, co_recs, co_scrape, co_grouped, co_info, co_agg, co_rows, co_log>>
    /\ UNCHANGED <<nmVars, asVars, baVars, lnVars>>

\* lines 226-246: without scraping there is no scraped_price column to aggregate
CoRegroup ==
    /\ \/ co_pc = "lookup" /\ co_k = Len(co_grouped)
       \/ co_pc = "regroup"
    /\ IF co_scrape
       THEN With(WithNormalizedItem(Enrich(co_grouped, co_info)), LAMBDA grouped :
                co_grouped' = grouped /\ co_agg' = Regroup(grouped) /\ co_pc' = "resolve")
       ELSE co_pc' = "KeyError" /\ UNCHANGED <<co_grouped, co_agg>>
    /\ UNCHANGED <<co_store, co_recs, co_scrape, co_k, co_info, co_rows, co_clock, co_log>>
    /\ UNCHANGED <<nmVars, asVars, baVars, lnVars>>

\* lines 249-285
CoResolve ==
    /\ co_pc = "resolve"
    /\ IF ResolveRaises(co_agg, MedianCostPerUnit(co_agg))
       THEN co_pc' = "OverflowError" /\ UNCHANGED co_agg
       ELSE co_pc' = "return" /\ co_agg' = Resolve(co_agg)
    /\ UNCHANGED <<co_store, co_recs, co_scrape, co_grouped, co_k, co_info, co_rows, co_clock, co_log>>
    /\ UNCHANGED <<nmVars, asVars, baVars, lnVars>>

\* collate_sams_club_items, lines 69-91
SamsCollate ==
    /\ co_store = "Sams" /\ co_pc = "start"
    /\ co_agg' = SamsAggregate(co_recs)
    /\ co_pc' = "return"
    /\ UNCHANGED <<co_store, co_recs, co_scrape, co_grouped, co_k, co_info, co_rows, co_clock, co_log>>
    /\ UNCHANGED <<nmVars, asVars, baVars, lnVars>>

\* the column cut, the sort and the return of either collator
CoReturn ==
    /\ co_pc = "return"
    /\ \E p \in SortedOrders(co_agg) : co_rows' = OutputRows(co_agg, p)
    /\ co_pc' = "done"
    /\ UNCHANGED <<co_store, co_recs, co_scrape, co_grouped, co_k, co_info, co_agg, co_clock, co_log>>
    /\ UNCHANGED <<nmVars, asVars, baVars, lnVars>>

NextCollate ==
    \/ CoGroupByCode
    \/ CoLookup
    \/ CoSleep
    \/ CoRegroup
    \/ CoResolve
    \/ SamsCollate
    \/ CoReturn

SpecCollate == InitCollate /\ [][NextCollate]_vars

\* the present item codes of the input
PresentCodes == {co_recs[k].item_code : k \in 1..Len(co_recs)} \ {-1}

\* C2: every row a collator returns has an integer quantity >= 1, whichever
\* policy produced it.
C2_QuantityAtLeastOne ==
    co_pc = "done" =>
        \A k \in 1..Len(co_rows) : co_rows[k].quantity \in Nat /\ co_rows[k].quantity >= 1

\* C6: every return of the external lookup has the (name, price) pair shape, so
\* the collator's unpacking of the result never raises.
C6_LookupReturnsPair ==
    /\ \A k \in 1..Len(co_log) : co_log[k].result.shape = "pair"
    /\ co_pc # "ValueError"

\* C7: with lookups enabled the collator never stops on an exception, whatever
\* the lookups answer; a group whose lookup failed (it answered the receipt name
\* and no price) keeps its first-seen receipt name and carries no reference
\* price, and at the return every code-keyed group is represented by an output
\* row.
C7_CompletesWhateverLookup ==
    (co_store = "Costco" /\ co_scrape) =>
        /\ co_pc \notin Raised
        /\ co_pc \in {"resolve", "return", "done"} =>
              \A k \in 1..Len(co_log) :
                  co_log[k].result = NamePrice(GroupByCode(co_recs)[k].item, 0) =>
                      /\ co_grouped[k].item = GroupByCode(co_recs)[k].item
                      /\ co_grouped[k].scraped_price = 0
        /\ co_pc = "done" =>
              \A g \in Range(co_grouped) :
                  \E r \in Range(co_rows) : NormalizeCostco(r.item) = g.normalized_item

\* the input records that end under a normalized key: those whose code-keyed
\* group carries a name with that key
RecordsUnderKey(key) ==
    SelectSeq(co_recs, LAMBDA r :
        \E g \in Range(co_grouped) :
            g.item_code = r.item_code /\ g.normalized_item = key)

FirstNonAbsent(members, price) ==
    IF \A k \in 1..Len(members) : members[k].scraped_price = 0
    THEN price = 0
    ELSE \E k \in 1..Len(members) :
            /\ members[k].scraped_price # 0
            /\ \A j \in 1..(k - 1) : members[j].scraped_price = 0
            /\ price = members[k].scraped_price

-----------------------------------------------------------------------------
(* Batch of documents: parse_costco_receipt, parse_sams_club_receipt,
   parse_receipt_directory *)

\* pdfplumber.open(...), page.extract_text() for every page and the split into
\* lines: an unreadable file raises in open, a page without text makes
\* `extract_text() + "\n"` raise; both before the first line is parsed
ExtractText(doc) ==
    IF doc.extract = "ok"
    THEN [raised |-> FALSE, lines |-> SplitLines(doc.lines)]
    ELSE [raised |-> TRUE, lines |-> <<>>]

\* parse_costco_receipt without its except clause
parse_costco_receipt_NoCatch(doc) ==
    With(ExtractText(doc), LAMBDA x :
    IF x.raised THEN [raised |-> TRUE, items |-> <<>>]
    ELSE [raised |-> FALSE, items |-> Assemble("A", x.lines)])

\* parse_receipts.parse_costco_receipt: `except Exception` returns the items
\* collected so far, which are none when the extraction raised
parse_costco_receipt(doc) ==
    With(ExtractText(doc), LAMBDA x :
    IF x.raised THEN [raised |-> FALSE, items |-> <<>>]
    ELSE [raised |-> FALSE, items |-> Assemble("A", x.lines)])

\* parse_sams_club_receipts.parse_sams_club_receipt
parse_sams_club_receipt(doc) ==
    With(ExtractText(doc), LAMBDA x :
    IF x.raised THEN [raised |-> FALSE, items |-> <<>>]
    ELSE [raised |-> FALSE, items |-> Assemble("B", x.lines)])

\* parse_receipts.parse_sams_club_receipt
parse_sams_club_receipt_legacy(doc) ==
    With(ExtractText(doc), LAMBDA x :
    IF x.raised THEN [raised |-> FALSE, items |-> <<>>]
    ELSE [raised |-> FALSE, items |-> Assemble("Blegacy", x.lines)])

MaxDocs == 3

Doc(prefix, extract, lines) == [prefix |-> prefix, extract |-> extract, lines |-> lines]

\* the PDF files of a directory: file-name prefix, outcome of the text
\* extraction, and the lines of the pages that have text
DocPool ==
    { Doc("Costco", "ok", <<<<"E"," ","1","0","0"," ","2"," ","x"," ","W","i","d","g","e","t"," ","1","0",".","0","0"," ","Y">>>>),
      Doc("Costco", "ok", <<<<"B","i","g"," ","W","i","d","g","e","t">>, <<"E"," ","2","0","0"," ","4","4",".","9","7"," ","N">>>>),
      Doc("Costco", "no_text", <<<<"E"," ","1","0","0"," ","2"," ","x"," ","W","i","d","g","e","t"," ","1","0",".","0","0"," ","Y">>>>),
      Doc("Costco", "open_error", <<>>),
      Doc("SC", "ok", <<<<"W","i","d","g","e","t"," ","Q","t","y"," ","2"," ","$","5",".","0","0">>>>),
      Doc("SC", "ok", <<<<"1","0","0"," ","2"," ","x"," ","W","i","d","g","e","t"," ","5",".","0","0">>>>),
      Doc("SC", "no_text", <<<<"G","a","d","g","e","t"," ","$","3",".","0","0">>>>),
      Doc("other", "ok", <<<<"E"," ","1","0","0"," ","2"," ","x"," ","W","i","d","g","e","t"," ","1","0",".","0","0"," ","Y">>>>) }

\* directory.glob('*.pdf'), filtered to the SC files by the Sam's Club script
InitBatch ==
    /\ IdleNormalize /\ IdleAssemble /\ IdleCollate /\ IdleLine
    /\ ba_entry \in {"combined", "sams"}
    /\ \E files \in SeqsUpTo(DocPool, MaxDocs) :
          ba_docs = IF ba_entry = "sams"
                    THEN SelectSeq(files, LAMBDA f : f.prefix = "SC")
                    ELSE files
    /\ ba_k = 0
    /\ ba_all = <<>>
    /\ ba_pc = "loop"

\* all_items.extend(items) after a parse call; an exception leaving the call
\* would leave the loop, which has no handler
Extend(r) ==
    IF r.raised
    THEN ba_pc' = "raised" /\ UNCHANGED <<ba_k, ba_all>>
    ELSE ba_pc' = ba_pc /\ ba_k' = ba_k + 1 /\ ba_all' = ba_all \o r.items

\* parse_receipts.py, `if filename.startswith('Costco')`
BatchCostco ==
    /\ ba_pc = "loop" /\ ba_k < Len(ba_docs)
    /\ ba_entry = "combined" /\ ba_docs[ba_k + 1].prefix = "Costco"
    /\ Extend(parse_costco_receipt(ba_docs[ba_k + 1]))
    /\ UNCHANGED <<ba_entry, ba_docs, nmVars, asVars, coVars, lnVars>>

\* parse_receipts.py, `elif filename.startswith('SC')`
BatchSamsLegacy ==
    /\ ba_pc = "loop" /\ ba_k < Len(ba_docs)
    /\ ba_entry = "combined" /\ ba_docs[ba_k + 1].prefix = "SC"
    /\ Extend(parse_sams_club_receipt_legacy(ba_docs[ba_k + 1]))
    /\ UNCHANGED <<ba_entry, ba_docs, nmVars, asVars, coVars, lnVars>>

\* parse_receipts.py, `else`: unknown receipt type, skipped
BatchSkip ==
    /\ ba_pc = "loop" /\ ba_k < Len(ba_docs)
    /\ ba_entry = "combined" /\ ba_docs[ba_k + 1].prefix \notin {"Costco", "SC"}
    /\ ba_k' = ba_k + 1
    /\ UNCHANGED <<ba_entry, ba_docs, ba_all, ba_pc, nmVars, asVars, coVars, lnVars>>

\* parse_sams_club_receipts.py: every file of the loop is an SC file
BatchSams ==
    /\ ba_pc = "loop" /\ ba_k < Len(ba_docs)
    /\ ba_entry = "sams"
    /\ Extend(parse_sams_club_receipt(ba_docs[ba_k + 1]))
    /\ UNCHANGED <<ba_entry, ba_docs, nmVars, asVars, coVars, lnVars>>

\* the loop is over: all_items goes into the DataFrame
BatchReturn ==
    /\ ba_pc = "loop" /\ ba_k = Len(ba_docs)
    /\ ba_pc' = "done"
    /\ UNCHANGED <<ba_entry, ba_docs, ba_k, ba_all, nmVars, asVars, coVars, lnVars>>

NextBatch ==
    \/ BatchCostco
    \/ BatchSamsLegacy
    \/ BatchSkip
    \/ BatchSams
    \/ BatchReturn

SpecBatch == InitBatch /\ [][NextBatch]_vars

\* the records a document gives when it is the only document of the batch
Alone(entry, doc) ==
    IF doc.extract # "ok" THEN <<>>
    ELSE IF entry = "sams" THEN Assemble("B", SplitLines(doc.lines))
    ELSE IF doc.prefix = "Costco" THEN Assemble("A", SplitLines(doc.lines))
    ELSE IF doc.prefix = "SC" THEN Assemble("Blegacy", SplitLines(doc.lines))
    ELSE <<>>

RECURSIVE AloneUpTo(_, _, _)
AloneUpTo(entry, docs, k) ==
    IF k = 0 THEN <<>> ELSE AloneUpTo(entry, docs, k - 1) \o Alone(entry, docs[k])

\* C8: a document whose extraction fails contributes no record and does not stop
\* the batch; the records collected after k documents are those each readable
\* document gives alone, in document order.
C8_FailedDocumentIsolated ==
    /\ ba_pc # "raised"
    /\ ba_all = AloneUpTo(ba_entry, ba_docs, ba_k)

\* a readable document, then one with a page without text, then a readable one:
\* the batch ends with the records of the first and the third
C8_Witness ==
    /\ ba_pc = "done" /\ ba_entry = "combined" /\ Len(ba_docs) = 3
    /\ ba_docs[1] = Doc("Costco", "ok", <<<<"E"," ","1","0","0"," ","2"," ","x"," ","W","i","d","g","e","t"," ","1","0",".","0","0"," ","Y">>>>)
    /\ ba_docs[2] = Doc("Costco", "no_text", <<<<"E"," ","1","0","0"," ","2"," ","x"," ","W","i","d","g","e","t"," ","1","0",".","0","0"," ","Y">>>>)
    /\ ba_docs[3] = Doc("SC", "ok", <<<<"1","0","0"," ","2"," ","x"," ","W","i","d","g","e","t"," ","5",".","0","0">>>>)
    /\ Len(ba_all) = 2
    /\ ba_all[1].total_price = 1000 /\ ba_all[2].total_price = 500

-----------------------------------------------------------------------------
(* Quantity resolution and output order of the collators *)

\* estimate_quantity_from_price(total_cost, estimated_unit_price), in cents
estimate_quantity_from_price(total_cost, estimated_unit_price) ==
    IF estimated_unit_price <= 0 THEN 1
    ELSE Max(1, RoundHalfEven(total_cost, estimated_unit_price))

\* q is an integer nearest to n / d (d > 0)
NearestTo(q, n, d) == 2 * q * d - 2 * n <= d /\ 2 * n - 2 * q * d <= d

\* C11: policy 1: when collate_costco_items has resolved the quantities, every
\* final group with a positive reference price has quantity
\* max(1, round(cost / reference price)), whatever its raw quantity and its
\* cost per unit relative to the cohort; it is what estimate_quantity_from_price
\* gives.
C11_ReferencePricePolicy ==
    (co_store = "Costco" /\ co_pc \in {"return", "done"}) =>
        \A k \in 1..Len(co_agg) :
            co_agg[k].scraped_price > 0 =>
                \E q \in 0..(co_agg[k].cost + 1) :
                    /\ NearestTo(q, co_agg[k].cost, co_agg[k].scraped_price)
                    /\ co_agg[k].quantity = Max(1, q)
                    /\ co_agg[k].quantity =
                          estimate_quantity_from_price(co_agg[k].cost, co_agg[k].scraped_price)

\* a group of cost 19.00 and raw quantity 3 with reference price 5.00, above
\* 1.5 times the cohort median, resolved to 4
C11_Witness ==
    /\ co_store = "Costco" /\ co_pc = "done"
    /\ \E k \in 1..Len(co_agg) :
          /\ co_agg[k].scraped_price = 500 /\ co_agg[k].cost = 1900
          /\ co_agg[k].unit_number = 3 /\ co_agg[k].quantity = 4
          /\ AboveCohort(co_agg[k], MedianCostPerUnit(co_agg))
          /\ \E r \in Range(co_rows) : r.item = co_agg[k].item /\ r.quantity = 4

\* C12: policy 2: every final group of collate_sams_club_items has quantity
\* equal to its summed raw quantity times the pack size parsed from its name
\* (1 when the name has none).
C12_PackSizePolicy ==
    (co_store = "Sams" /\ co_pc \in {"return", "done"}) =>
        \A k \in 1..Len(co_agg) :
            co_agg[k].quantity = co_agg[k].unit_number * extract_pack_size(co_agg[k].item)

\* C13: policy 3: the cohort pass of collate_costco_items resolves every final
\* group without a positive reference price: when its cost per unit is above
\* 1.5 times the batch median, quantity = max(raw quantity, round(cost /
\* median)), otherwise quantity = raw quantity.
C13_CohortFallback ==
    co_store = "Costco" =>
        /\ co_pc # "OverflowError"
        /\ co_pc \in {"return", "done"} =>
              With(MedianCostPerUnit(co_agg), LAMBDA median :
              \A k \in 1..Len(co_agg) :
                  co_agg[k].scraped_price = 0 =>
                      IF AboveCohort(co_agg[k], median)
                      THEN \E q \in 0..(co_agg[k].cost * median.den + 1) :
                              /\ NearestTo(q, co_agg[k].cost * median.den, median.num)
                              /\ co_agg[k].quantity = Max(co_agg[k].unit_number, q)
                      ELSE co_agg[k].quantity = co_agg[k].unit_number)

\* C14: the rows returned by either collator are ordered by total_cost
\* descending: each row's total_cost is >= that of the row after it.
C14_RowsSortedDescending ==
    co_pc = "done" =>
        \A k \in 1..(Len(co_rows) - 1) : co_rows[k].total_cost >= co_rows[k + 1].total_cost

C14_Witness ==
    /\ co_pc = "done" /\ Len(co_rows) >= 2
    /\ co_rows[1].total_cost > co_rows[2].total_cost
    /\ co_agg[1].cost < co_agg[2].cost
    /\ co_rows[1].item = co_agg[2].item

-----------------------------------------------------------------------------
(* Line specification: one text line through a line parser, or one name
   through a validity gate *)

\* the parts Costco full-form lines are put together from
LineCodes == {<<"1","0","0">>, <<"7","8","2","7","9","6">>}
QtyPrefixes ==
    {[text |-> <<>>, qty |-> 1], [text |-> <<"2"," ","x"," ">>, qty |-> 2],
     [text |-> <<"3"," ","X"," ">>, qty |-> 3], [text |-> <<"0"," ","x"," ">>, qty |-> 0]}
DescNames == {<<"W","i","d","g","e","t">>, <<"C","A","S","H","E","W","S">>, <<"B","R","E","A","D">>, <<"*","*","*","K","S","W","T","R","4","0","P","K">>, <<"1","2">>, <<"N","u","t","s"," ","5",".","0","0">>}
PriceTails ==
    {[text |-> <<"1","0",".","0","0"," ","Y">>, price |-> 1000], [text |-> <<"1","1",".","9","7">>, price |-> 1197],
     [text |-> <<"0",".","0","0"," ","N">>, price |-> 0]}

\* 'E <numeric-code> <description> <price with 2 decimals> [Y|N]'
FullFormLine(code, prefix, name, tail) ==
    <<"E"," ">> \o code \o <<" ">> \o prefix \o name \o <<" ">> \o tail

\* the lines handed to parse_costco_line
LinePoolA ==
    {FullFormLine(code, pre.text, name, tail.text) :
        code \in LineCodes, pre \in QtyPrefixes, name \in DescNames, tail \in PriceTails}
    \cup PoolA \cup {<<"E"," ","1","0","0"," ","W","i","d","g","e","t"," ","5",".","0","0","-">>, <<"E"," ","1","0","0"," ","A","/","B"," ","5",".","0","0","-">>, <<"1","0","0"," ","/","2","0","0"," ","3",".","0","0","-">>, <<" "," ","E"," ","2","0","0"," ","0",".","0","0"," "," ">>}

\* the parts Sam's Club 'Qty' lines are put together from
QtyNames ==
    {<<"W","i","d","g","e","t">>, <<"K","i","r","k","l","a","n","d"," ","C","a","s","h","e","w","s">>, <<"R","e","d"," ","B","u","l","l"," ","E","n","e","r","g","y"," ","S","u","g","a","r","-","F","r","e","e"," ","8",".","4"," ","f","l","."," ","o","z",".",","," ","2","4"," ","p","k",".">>,
     <<"1","2"," ","S","T","E","A","K","S">>, <<"W","i","d"," "," ","g","e","t">>, <<"T","O","T","A","L">>, <<"1","2">>, <<"H","a","l","f","/","H","a","l","f">>}
QtyCounts == {[text |-> <<"0">>, qty |-> 0], [text |-> <<"1">>, qty |-> 1], [text |-> <<"2">>, qty |-> 2]}
QtyPrices ==
    {[text |-> <<"$","3","4",".","9","8">>, price |-> 3498], [text |-> <<"$","5",".","0","0"," ">>, price |-> 500],
     [text |-> <<"$","0",".","0","0">>, price |-> 0]}

\* '<name> Qty <int> $<price with 2 decimals>'
QtyLine(name, count, price) == name \o <<" ","Q","t","y"," ">> \o count \o <<" ">> \o price

\* the lines handed to parse_sams_club_line
LinePoolB ==
    {QtyLine(name, c.text, p.text) : name \in QtyNames, c \in QtyCounts, p \in QtyPrices}
    \cup PoolB \cup {<<"G","a","d","g","e","t"," ","$","0",".","0","0">>, <<"1","2"," ","$","3",".","0","0">>, <<"A","/","B"," ","Q","t","y"," ","1"," ","$","5",".","0","0","-">>, <<"G","a","d","g","e","t"," ","Q","t","y"," ","2"," ","x"," ","$","6",".","0","0">>}

\* the lines handed to parse_sams_club_line of parse_receipts.py
LinePoolBLegacy == PoolBLegacy \cup {<<"G","a","d","g","e","t"," ","$","0",".","0","0">>, <<"1","2"," ","$","3",".","0","0">>, <<"A","/","B"," ","Q","t","y"," ","1"," ","$","5",".","0","0","-">>}

\* the names handed to the validity gates
NamePool ==
    {<<>>, <<" ">>, <<"W">>, <<" ","W"," ">>, <<"W","i","d","g","e","t">>, <<"T","O","T","A","L">>, <<"t","o","t","a","l">>, <<"T","o","t","a","l",":"," ","5">>, <<"T","O","T","A","L"," ","5","9",".","9","7">>,
     <<"T","O","T","A","L","L","Y"," ","N","u","t","s">>, <<"S","u","b","t","o","t","a","l">>, <<"1","2","3","/","4","5","6"," ","5",".","0","0","-">>, <<"1","2">>, <<"1",",","2","0","0"," ","-"," ","#","4"," ","*"," ","$","5">>, <<"1","2",".","5","0">>,
     <<"$","5",".","0","0">>, <<"#","1","2">>, <<"V","I","S","A"," ","1","2","3","4">>, <<"V","i","s","a"," ","G","i","f","t"," ","C","a","r","d">>, <<"C","A","S","H","E","W","S">>, <<"B","R","E","A","D">>, <<"A","/","B">>,
     <<"H","a","l","f","/","H","a","l","f"," ","-">>, <<"C","a","s","h">>, <<"C","a","s","h",":"," ","2","0">>, <<"W","i","d","g","e","t","-">>, <<"5","/","8"," ","B","o","l","t">>, <<"-","-">>, <<"S","h","i","p","p","i","n","g">>, <<"O","r","d","e","r"," ","6","6">>, <<"A","/","B","-"," ">>}
    \cup {pre \o core \o suf :
            pre \in {<<>>, <<" ">>, <<"A","/">>},
            core \in {<<>>, <<"W">>, <<"W","i","d","g","e","t">>, <<"T","O","T","A","L">>, <<"t","o","t","a","l">>, <<"C","a","s","h">>, <<"V","I","S","A">>, <<"1","2">>,
                      <<"#","4">>, <<"$">>, <<"S","h","i","p","p","i","n","g">>, <<"1","/","2">>},
            suf \in {<<>>, <<" ">>, <<":">>, <<" ","5">>, <<"-">>, <<"L","Y">>, <<".","5","0">>}}

InitLine ==
    /\ \/ ln_fn = "parse_costco_line" /\ ln_line \in LinePoolA
       \/ ln_fn = "parse_sams_club_line" /\ ln_line \in LinePoolB
       \/ ln_fn = "parse_sams_club_line_legacy" /\ ln_line \in LinePoolBLegacy
       \/ ln_fn \in {"is_valid_item", "is_valid_item_sams"} /\ ln_line \in NamePool
    /\ ln_out = "none" /\ ln_pc = "call"
    /\ IdleNormalize /\ IdleAssemble /\ IdleBatch /\ IdleCollate

CallParseCostcoLine ==
    /\ ln_pc = "call" /\ ln_fn = "parse_costco_line"
    /\ ln_out' = parse_costco_line(ln_line)
    /\ ln_pc' = "returned"
    /\ UNCHANGED <<ln_fn, ln_line, nmVars, asVars, baVars, coVars>>

CallParseSamsClubLine ==
    /\ ln_pc = "call" /\ ln_fn = "parse_sams_club_line"
    /\ ln_out' = parse_sams_club_line(ln_line)
    /\ ln_pc' = "returned"
    /\ UNCHANGED <<ln_fn, ln_line, nmVars, asVars, baVars, coVars>>

CallParseSamsClubLineLegacy ==
    /\ ln_pc = "call" /\ ln_fn = "parse_sams_club_line_legacy"
    /\ ln_out' = parse_sams_club_line_legacy(ln_line)
    /\ ln_pc' = "returned"
    /\ UNCHANGED <<ln_fn, ln_line, nmVars, asVars, baVars, coVars>>

CallIsValidItem ==
    /\ ln_pc = "call" /\ ln_fn = "is_valid_item"
    /\ ln_out' = is_valid_item(ln_line)
    /\ ln_pc' = "returned"
    /\ UNCHANGED <<ln_fn, ln_line, nmVars, asVars, baVars, coVars>>

CallIsValidItemSams ==
    /\ ln_pc = "call" /\ ln_fn = "is_valid_item_sams"
    /\ ln_out' = is_valid_item_sams(ln_line)
    /\ ln_pc' = "returned"
    /\ UNCHANGED <<ln_fn, ln_line, nmVars, asVars, baVars, coVars>>

NextLine ==
    \/ CallParseCostcoLine
    \/ CallParseSamsClubLine
    \/ CallParseSamsClubLineLegacy
    \/ CallIsValidItem
    \/ CallIsValidItemSams

SpecLine == InitLine /\ [][NextLine]_vars

\* C15: parse_costco_line turns every full-form line 'E <code> <description>
\* <price> [Y|N]' that is not a discount line into a record with that code,
\* that price as total_price and the description as name; a leading '<int> x '
\* of the description becomes the quantity and is cut from the name, with
\* unit_price = price / quantity, and quantity is 1 without it. Descriptions
\* such as 'CASHEWS' and 'BREAD' are no exception.
C15_CostcoFullForm ==
    (ln_fn = "parse_costco_line" /\ ln_pc = "returned") =>
        \A code \in LineCodes, pre \in QtyPrefixes, name \in DescNames, tail \in PriceTails :
            ( /\ ln_line = FullFormLine(code, pre.text, name, tail.text)
              /\ ~IsDiscountLine(ln_line) ) =>
                /\ ln_out.ok
                /\ ln_out.item_code = code
                /\ ln_out.item_name = name
                /\ ln_out.total_price = tail.price
                /\ ln_out.quantity = pre.qty
                /\ pre.qty > 0 => ln_out.unit_price.num * pre.qty = tail.price * ln_out.unit_price.den

\* C16: parse_sams_club_line turns every line ending in 'Qty <int> $<price>'
\* whose preceding text is a valid item name into a record: the name is the
\* text before 'Qty' with its whitespace collapsed, quantity and total_price
\* are the parsed values, unit_price is price / quantity when quantity > 1 and
\* the price otherwise. (Stated for positive prices.)
C16_SamsQtyForm ==
    (ln_fn = "parse_sams_club_line" /\ ln_pc = "returned") =>
        \A name \in QtyNames, c \in QtyCounts, p \in QtyPrices :
            ( /\ ln_line = QtyLine(name, c.text, p.text)
              /\ is_valid_item_sams(CollapseSpaces(name)) /\ p.price > 0 ) =>
                /\ ln_out.ok
                /\ ln_out.item_name = CollapseSpaces(name)
                /\ ln_out.quantity = c.qty
                /\ ln_out.total_price = p.price
                /\ ln_out.unit_price = [num |-> p.price, den |-> IF c.qty > 1 THEN c.qty ELSE 1]

\* C17: neither line parser returns a record with a price <= 0 or with a name
\* that is_valid_item rejects. (The code-only form of Format A, whose name is
\* left empty for the assembler to fill, is left aside.)
C17_NoRecordForBadPriceOrName ==
    ( /\ ln_fn \in {"parse_costco_line", "parse_sams_club_line"}
      /\ ln_pc = "returned" /\ ln_out.ok /\ ln_out.item_name # <<>> ) =>
        /\ ln_out.total_price > 0
        /\ IF ln_fn = "parse_costco_line" THEN is_valid_item(ln_out.item_name)
           ELSE is_valid_item_sams(ln_out.item_name)

\* the document with its discount lines emptied
Blanked(lines) ==
    [k \in 1..Len(lines) |-> IF IsDiscountLine(lines[k]) THEN <<>> ELSE lines[k]]

\* C18: a line that contains '/' and ends with '-' never produces a record and
\* never contributes to an emitted name: the iteration at such a line appends
\* nothing, no emitted name contains such a line of the document, and the
\* Costco assembler emits what it would emit with those lines emptied.
C18_DiscountLineInert ==
    /\ [][(as_pc = "loop" /\ as_i < Len(as_lines) /\ IsDiscountLine(LineAt(as_lines, as_i)))
            => as_items' = as_items]_vars
    /\ [](\A r \in 1..Len(as_items), k \in 1..Len(as_lines) :
            IsDiscountLine(as_lines[k])
                => ~Contains(as_items[r].item_name, CollapseSpaces(Strip(as_lines[k]))))
    /\ []((as_fmt = "A" /\ as_pc = "done") => as_items = Assemble("A", Blanked(as_lines)))

C18_Witness ==
    /\ as_fmt = "A" /\ as_pc = "done"
    /\ \E k \in 2..(Len(as_lines) - 1) :
          /\ IsDiscountLine(as_lines[k - 1])
          /\ CostcoCodeOnlyForm(as_lines[k]).ok
          /\ UsableFragment(as_lines[k + 1])
          /\ \E r \in 1..Len(as_items) : as_items[r].item_name = as_lines[k + 1]

\* the lines within the stitching window of line i, none of them usable
NoFragmentAround(lines, i) ==
    \A j \in (Max(0, i - StitchWindow)..(i - 1)) \cup ((i + 1)..(Min(Len(lines), i + 1 + StitchWindow) - 1)) :
        ~UsableFragment(LineAt(lines, j))

\* C19: every record emitted by the Costco assembler and by the dedicated
\* Sam's Club assembler has a non-empty name that passes is_valid_item, and the
\* iteration at a Costco code-only line with no usable fragment within the
\* window appends nothing.
C19_EmittedNameValid ==
    /\ [](\A r \in 1..Len(as_items) :
            /\ as_fmt = "A" => as_items[r].item_name # <<>> /\ is_valid_item(as_items[r].item_name)
            /\ as_fmt = "B" => as_items[r].item_name # <<>> /\ is_valid_item_sams(as_items[r].item_name))
    /\ [][( /\ as_fmt = "A" /\ as_pc = "loop" /\ as_i < Len(as_lines)
            /\ CostcoCodeOnlyForm(LineAt(as_lines, as_i)).ok
            /\ NoFragmentAround(as_lines, as_i) )
            => as_items' = as_items]_vars

C19_Witness ==
    /\ as_fmt = "A" /\ as_pc = "done" /\ Len(as_items) = 1
    /\ \E k \in 1..Len(as_lines) :
          /\ CostcoCodeOnlyForm(as_lines[k]).ok
          /\ NoFragmentAround(as_lines, k - 1)

\* the shapes of names the validity gate is to reject
ShortName(name) == Len(Strip(name)) < 2
VocabularyName(keywords, name) ==
    \E kw \in keywords :
        \/ Strip(Upper(name)) = kw
        \/ StartsWith(Strip(Upper(name)), kw \o <<":">>)
        \/ StartsWith(Strip(Upper(name)), kw \o <<" ">>)
NumericName(name) ==
    name # <<>> /\ \A k \in 1..Len(name) : name[k] \in Digit \cup {" ", "#", ",", "-", "*", "$"}
DiscountName(name) == Contains(name, <<"/">>) /\ EndsWith(Strip(name), <<"-">>)
PaymentName(name) ==
    \E tok \in {<<"C","A","S","H">>, <<"C","A","R","D">>, <<"C","R","E","D","I","T">>, <<"D","E","B","I","T">>, <<"V","I","S","A">>, <<"M","A","S","T","E","R","C","A","R","D">>} :
        StartsWith(Strip(Upper(name)), tok)

\* C20: is_valid_item rejects every name that is blank or shorter than 2
\* characters, that equals a non-item word or starts with one followed by ':'
\* or a space (upper-cased and trimmed), that is made only of digits and the
\* characters space # , - * $, or that contains '/' and ends with '-'; it
\* accepts every name of none of these shapes that does not begin with a
\* payment-method token.
C20_ValidityGate ==
    (ln_fn \in {"is_valid_item", "is_valid_item_sams"} /\ ln_pc = "returned") =>
        With(IF ln_fn = "is_valid_item" THEN NonItemKeywords ELSE NonItemKeywordsSams,
             LAMBDA keywords :
             With(\/ ShortName(ln_line) \/ VocabularyName(keywords, ln_line)
                  \/ NumericName(ln_line) \/ DiscountName(ln_line),
                  LAMBDA shaped :
                  /\ shaped => ln_out = FALSE
                  /\ (~shaped /\ ~PaymentName(ln_line)) => ln_out = TRUE))

C20_Witness ==
    /\ ln_fn = "is_valid_item" /\ ln_pc = "returned"
    /\ ln_line = <<"1","2","3","/","4","5","6"," ","5",".","0","0","-">> /\ ln_out = FALSE

\* the usable lines among positions lo..hi-1 of the document, in document order
RECURSIVE UsableInOrder(_, _, _)
UsableInOrder(lines, lo, hi) ==
    IF lo >= hi THEN <<>>
    ELSE (IF UsableFragment(LineAt(lines, lo)) THEN <<LineAt(lines, lo)>> ELSE <<>>)
         \o UsableInOrder(lines, lo + 1, hi)

\* C21: when the Costco assembler emits a record at a code-only line i, its
\* name is the usable lines among i-2 and i-1 in document order followed by
\* the first usable line among i+1 and i+2, joined by single spaces, and the
\* cursor moves past the forward line consumed.
C21_StitchingOrder ==
    [][( /\ as_fmt = "A" /\ as_pc = "loop" /\ as_i < Len(as_lines)
         /\ CostcoCodeOnlyForm(LineAt(as_lines, as_i)).ok
         /\ Len(as_items') = Len(as_items) + 1 )
        => With(UsableInOrder(as_lines, as_i + 1, Min(Len(as_lines), as_i + 1 + StitchWindow)),
                LAMBDA forward :
                /\ as_items'[Len(as_items')].item_name =
                       JoinSpace(UsableInOrder(as_lines, Max(0, as_i - StitchWindow), as_i)
                                 \o (IF forward # <<>> THEN <<forward[1]>> ELSE <<>>))
                /\ forward = <<>> => as_i' = as_i + 1
                /\ forward # <<>> =>
                       /\ as_i' > as_i + 1
                       /\ LineAt(as_lines, as_i' - 1) = forward[1])]_vars

\* '$' followed by digits, a point and two digits, somewhere in l
HasDollarPrice(l) ==
    \E p \in 1..Len(l), q \in 1..Len(l) :
        /\ l[p] = "$" /\ q > p + 1 /\ q + 2 <= Len(l)
        /\ \A k \in (p + 1)..(q - 1) : l[k] \in Digit
        /\ l[q] = "." /\ l[q + 1] \in Digit /\ l[q + 2] \in Digit

\* 'Qty', whitespace, digits, whitespace and '$', in any letter case, somewhere in l
HasQtyDollar(l) ==
    \E p \in 1..Len(l), a \in 1..Len(l), b \in 1..Len(l), c \in 1..Len(l) :
        /\ p + 3 < a /\ a < b /\ b < c /\ p + 2 <= Len(l)
        /\ Upper(SubSeq(l, p, p + 2)) = <<"Q","T","Y">>
        /\ \A k \in (p + 3)..(a - 1) : l[k] = " "
        /\ \A k \in a..(b - 1) : l[k] \in Digit
        /\ \A k \in b..(c - 1) : l[k] = " "
        /\ l[c] = "$"

\* the next line continues the name of the record of the line before it
ContinuesName(l) ==
    /\ l # <<>> /\ Len(l) < 50
    /\ ~HasQtyDollar(l) /\ ~HasDollarPrice(l)
    /\ \A tok \in {<<"T","O","T","A","L">>, <<"S","U","B","T","O","T","A","L">>, <<"T","A","X">>, <<"C","A","S","H">>, <<"S","H","I","P","P","I","N","G">>} : ~Contains(Upper(l), tok)

\* C22: when parse_sams_club_line returns a record for line i, the next line
\* is appended to the name and the cursor moves past it exactly when that
\* line is non-blank, shorter than 50 characters, holds neither 'Qty <int> $'
\* nor '$<price>' and none of the structural tokens; one line at most is
\* appended, and otherwise the next line is the next candidate.
C22_Continuation ==
    [][( /\ as_fmt = "B" /\ as_pc = "loop" /\ as_i < Len(as_lines)
         /\ ~ContainsAny(LineAt(as_lines, as_i), SamsHeaderSkip)
         /\ parse_sams_club_line(LineAt(as_lines, as_i)).ok )
        => With(parse_sams_club_line(LineAt(as_lines, as_i)).item_name, LAMBDA name :
           IF as_i + 1 < Len(as_lines) /\ ContinuesName(LineAt(as_lines, as_i + 1))
           THEN /\ as_i' = as_i + 2
                /\ Len(as_items') > Len(as_items) =>
                       as_items'[Len(as_items')].item_name
                           = CollapseSpaces(name \o <<" ">> \o LineAt(as_lines, as_i + 1))
           ELSE /\ as_i' = as_i + 1
                /\ Len(as_items') > Len(as_items) =>
                       as_items'[Len(as_items')].item_name = name)]_vars

C22_Witness ==
    /\ as_fmt = "B" /\ as_i = 2 /\ Len(as_items) = 1
    /\ as_lines[2] = <<"D","e","l","u","x","e">>
    /\ as_items[1].item_name = <<"W","i","d","g","e","t"," ","D","e","l","u","x","e">>

\* C23: with scraping enabled the collator looks up each distinct present
\* item code once and no other, one lookup after the other with a pause of at
\* least 1 time unit between two lookups, and the re-grouping by name starts
\* only when every code has been looked up.
C23_LookupsSequentialAndPaced ==
    (co_store = "Costco" /\ co_scrape) =>
        /\ \A k \in 1..Len(co_log) : co_log[k].code \in PresentCodes
        /\ \A j, k \in 1..Len(co_log) : j < k =>
              /\ co_log[j].code # co_log[k].code
              /\ co_log[k].at >= co_log[j].at + 1
        /\ co_pc \in {"resolve", "return", "done", "OverflowError"} =>
              {co_log[k].code : k \in 1..Len(co_log)} = PresentCodes

C23_Witness ==
    /\ co_store = "Costco" /\ co_scrape /\ co_pc = "resolve"
    /\ Len(co_recs) = 3 /\ co_recs[1].item_code = co_recs[3].item_code
    /\ Len(co_log) = 2
    /\ co_log[2].at >= co_log[1].at + 1

\* the records in another order
Permuted(recs, p) == [k \in 1..Len(recs) |-> recs[p[k]]]
Orders(n) == {p \in [1..n -> 1..n] : \A i, j \in 1..n : i # j => p[i] # p[j]}

\* the rows of a table as a set
RowSet(agg) ==
    {[item |-> a.item, quantity |-> a.quantity, total_cost |-> a.cost] : a \in Range(agg)}

\* what the lookup that answered `result` for a group named was answers for the
\* same code when the group is named now: the site's own name and price, or
\* the receipt name when it found none
AnswerUnder(result, was, now) ==
    IF result = NamePrice(was, 0) THEN NamePrice(now, 0) ELSE result

\* scraped_info after the first k lookups over the groups of the reordered records
RECURSIVE InfoUnder(_, _, _, _)
InfoUnder(gOld, gNew, log, k) ==
    IF k = 0 THEN <<>>
    ELSE StoreInfo(InfoUnder(gOld, gNew, log, k - 1), gNew[k].item_code, gNew[k].item,
                   AnswerUnder(log[k].result, gOld[k].item, gNew[k].item))

\* the rows collate_costco_items returns on recs with the lookups of log, as a
\* set; {"raised"} when the resolver raises
CostcoRowsUnder(recs, log) ==
    With(GroupByCode(recs), LAMBDA gNew :
    With(Regroup(WithNormalizedItem(
             Enrich(gNew, InfoUnder(GroupByCode(co_recs), gNew, log, Len(gNew))))),
         LAMBDA agg :
         IF ResolveRaises(agg, MedianCostPerUnit(agg)) THEN {"raised"}
         ELSE RowSet(Resolve(agg))))

\* C24: the collated rows, as a set, do not depend on the order in which the
\* documents, hence their records, come in: every reordering of the records
\* gives the rows that were returned.
C24_OrderIndependent ==
    co_pc = "done" =>
        \A p \in Orders(Len(co_recs)) :
            IF co_store = "Sams"
            THEN RowSet(SamsAggregate(Permuted(co_recs, p))) = RowSet(co_agg)
            ELSE CostcoRowsUnder(Permuted(co_recs, p), co_log) = RowSet(co_agg)

\* C25: the header filter of an assembler skips no line its line parser turns
\* into a record with a valid name and a positive price: the iteration at such
\* a line appends a record, also when the name holds a header token inside a
\* longer word. (Stated for Sam's Club lines that no continuation line follows.)
C25_HeaderFilterSparesItems ==
    [][( /\ as_pc = "loop" /\ as_i < Len(as_lines)
         /\ \/ /\ as_fmt = "A"
               /\ With(parse_costco_line(LineAt(as_lines, as_i)), LAMBDA info :
                      info.ok /\ info.total_price > 0 /\ is_valid_item(info.item_name))
            \/ /\ as_fmt = "B"
               /\ With(parse_sams_club_line(LineAt(as_lines, as_i)), LAMBDA info :
                      info.ok /\ info.total_price > 0 /\ is_valid_item_sams(info.item_name))
               /\ ~(as_i + 1 < Len(as_lines) /\ IsContinuation(LineAt(as_lines, as_i + 1))) )
        => Len(as_items') = Len(as_items) + 1]_vars

\* C26: a positive price returned by the lookup of a code becomes the
\* reference price of that code's group, whatever name came with it, and the
\* final group holding that code resolves its quantity from a reference
\* price (policy 1).
C26_LookupPriceAttached ==
    (co_store = "Costco" /\ co_scrape /\ co_pc \in {"resolve", "return", "done"}) =>
        \A k \in 1..Len(co_log) :
            (co_log[k].result.shape = "pair" /\ co_log[k].result.price > 0) =>
                /\ co_grouped[k].item_code = co_log[k].code
                /\ co_grouped[k].scraped_price = co_log[k].result.price
                /\ co_pc \in {"return", "done"} =>
                      \A a \in Range(co_agg) :
                          NormalizeCostco(a.item) = co_grouped[k].normalized_item =>
                              /\ a.scraped_price > 0
                              /\ a.quantity = estimate_quantity_from_price(a.cost, a.scraped_price)

\* C27: the total_cost of the rows a collator returns adds up to the cost of
\* all input records, those without an item code included.
C27_CostConserved ==
    co_pc = "done" =>
        SumSeq([k \in 1..Len(co_rows) |-> co_rows[k].total_cost])
            = SumSeq([k \in 1..Len(co_recs) |-> co_recs[k].cost])

\* C28: in the Costco assembler a line gives its text to the name of at most
\* one emitted record: no more stitched names hold the text of a description
\* line than the document has lines with that text.
C28_LineUsedOnce ==
    as_fmt = "A" =>
        \A k \in 1..Len(as_lines) :
            UsableFragment(Strip(as_lines[k])) =>
                Cardinality({r \in 1..Len(as_items) :
                                Contains(as_items[r].item_name, Strip(as_lines[k]))})
                    <= Cardinality({j \in 1..Len(as_lines) : as_lines[j] = as_lines[k]})

\* the iteration the assembler of format `fmt` runs at cursor i
IterOf(fmt, lines, i) ==
    IF fmt = "A" THEN CostcoIter(lines, i)
    ELSE IF fmt = "B" THEN SamsIter(lines, i)
    ELSE SamsLegacyIter(lines, i)

\* the `while i < len(lines)` body is about to run and changes the cursor or
\* the item list, which is when an iteration step is enabled
IterationChangesState ==
    /\ as_pc = "loop" /\ as_i < Len(as_lines)
    /\ With(IterOf(as_fmt, as_lines, as_i), LAMBDA r : r.i # as_i \/ r.emit # <<>>)

StepIter == StepCostco \/ StepSams \/ StepSamsLegacy

\* the assembler is one sequential loop that keeps running until it returns:
\* weak fairness of the return and of the iteration, the latter written with
\* its enabling condition IterationChangesState
SpecAssembleFair ==
    /\ SpecAssemble
    /\ WF_vars(AssembleReturn)
    /\ ([]<>(~IterationChangesState) \/ []<><<StepIter>>_vars)

\* C29: the receipt assemblers terminate: every iteration moves the cursor
\* forward, by 1 or by more when a forward description or a continuation line
\* is consumed, the cursor never moves backward and never passes the end of
\* the document, so the line at each index is handed to the line parser in at
\* most one iteration, and the assembler returns with the cursor at the end.
C29_AssemblerTerminates ==
    /\ [][as_i' >= as_i /\ (as_pc' = "loop" => as_i' > as_i)]_vars
    /\ [](as_i <= Len(as_lines))
    /\ []((as_pc = "loop" /\ as_i < Len(as_lines)) =>
             With(IterOf(as_fmt, as_lines, as_i).i, LAMBDA n :
                  n > as_i /\ n <= as_i + StitchWindow + 1 /\ n <= Len(as_lines)))
    /\ <>(as_pc = "done" /\ as_i = Len(as_lines))

C29_Witness ==
    /\ as_fmt = "A" /\ as_pc = "done" /\ as_i = Len(as_lines)
    /\ Len(as_lines) = 4 /\ Len(as_items) = 1
    /\ CostcoCodeOnlyForm(as_lines[1]).ok
    /\ UsableFragment(as_lines[2]) /\ as_items[1].item_name = as_lines[2]

\* the fields of a line parser's result that the claim compares
Compared(r) ==
    IF r.ok THEN <<r.item_name, r.quantity, r.unit_price, r.total_price>>
    ELSE <<>>

\* C30: the two Sam's Club line parsers agree: on every line,
\* parse_sams_club_line of parse_sams_club_receipts.py and parse_sams_club_line
\* of parse_receipts.py return the same name, quantity, unit_price and
\* total_price, or both return no record.
C30_SamsLineParsersAgree ==
    (ln_fn = "parse_sams_club_line" /\ ln_pc = "returned") =>
        Compared(ln_out) = Compared(parse_sams_club_line_legacy(ln_line))

=============================================================================
